---- MODULE Spec2Model ----
(***************************************************************************)
(* A model of git-meta's sequencer store (sequencer_state_util.js), of the *)
(* SequencerState value type and of the cherry-pick protocol               *)
(* (cherryPick / continue / abort) that is built on them.                  *)
(*                                                                         *)
(* Strings are sequences of symbols.  NL is the newline character; every   *)
(* other symbol stands for a newline-free chunk of text.                   *)
(***************************************************************************)
EXTENDS Integers, Sequences, FiniteSets, TLC

VARIABLES
    disk,         \* the meta_sequencer directory inside the git dir
    pending,      \* store: the state a running writeSequencerState is writing
    prior,        \* store: the complete state the running write found on disk
    wpc,          \* store: next step of the running write (0: none running)
    hist,         \* store: how the directory got its present content
    readResult,   \* store: what the last readSequencerState returned
    rpc,          \* store: files the running readSequencerState has read
    rbuf,         \* store: what the running read got from each file
    head,         \* meta-repo: the commit id HEAD points to
    metaCommits,      \* meta-repo: the commit objects, by id
    diskIndex,        \* meta-repo: the index on disk, path -> entry
    memIndex,     \* the NodeGit.Index object of the running operation
    metaDirty,    \* meta-repo: staged / workdir changes to plain files
    urls,         \* meta-repo: the path -> URL map (.gitmodules)
    subs,         \* the sub-repos, by path
    targetCommit,       \* the foreign commit to be cherry-picked
    op,           \* the running operation and its position
    changes,      \* cherryPick: what computeChanges returned
    errorMessage, \* cherryPick: the report lines collected so far
    picks,        \* cherryPick: the result object of pickSubs
    inflight,     \* pickSubs: the paths whose pick has not completed
    result,       \* what the last operation returned or threw
    snap,         \* HEAD, index and workdir when the last cherryPick began
    queue,        \* work queue: the items handed to doInParallel
    failing,      \* work queue: the positions whose work is going to fail
    next,         \* doInParallel: the shared cursor
    resultArray,  \* doInParallel: the result array, by position
    work,         \* doInParallel: the workers, what each is waiting for
    calls,        \* doInParallel: the calls of getWork, in order
    settled,      \* doInParallel: the positions whose work has settled, in order
    promise,      \* doInParallel: the state of the promise it returned
    batched,       \* doInBatches: the batches argument and what was returned
    checkoutRepos, \* checkout: HEAD and working tree of the meta-repo and sub-repos
    openSubs,     \* checkout: the names listOpenSubmodules returned
    shas,         \* checkout: name -> sha of the sub-repos in the commit
    force,        \* checkout: the `force` argument
    errors,       \* checkout: the messages of the failed dry runs
    cache,        \* checkout: name -> { repo, commit }
    pendingSubs,  \* checkout: the sub-repos whose step has not completed
    cpc,          \* checkout: the position of checkoutCommit
    thrown        \* checkout: how checkoutCommit ended

storeVars == <<pending, prior, wpc, hist, readResult, rpc, rbuf>>

checkoutVars == <<checkoutRepos, openSubs, shas, force, errors, cache,
                  pendingSubs, cpc, thrown>>

repoVars == <<head, metaCommits, diskIndex, metaDirty, urls, subs>>

opVars == <<memIndex, op, changes, errorMessage, picks,
            inflight, result, snap>>

protoVars == <<repoVars, targetCommit, opVars>>

queueVars == <<queue, failing, next, resultArray, work, calls, settled,
               promise, batched>>

-----------------------------------------------------------------------------
(* Bounds *)

MaxCommits == 2

\* sub-repo commit ids the initial trees and the target's changes draw from
MaxSha == 3

\* commit ids of the meta-repo: 1 is the initial HEAD, 2 the target
MaxCommitId == 3

-----------------------------------------------------------------------------
(* Strings *)

NL == "<nl>"

Digits == {"0", "1", "2", "3", "4", "5", "6", "7", "8", "9"}

DigitVal(c) == CASE c = "0" -> 0 [] c = "1" -> 1 [] c = "2" -> 2 [] c = "3" -> 3
                 [] c = "4" -> 4 [] c = "5" -> 5 [] c = "6" -> 6 [] c = "7" -> 7
                 [] c = "8" -> 8 [] c = "9" -> 9

DigitChar(n) == CHOOSE c \in Digits : DigitVal(c) = n

\* "" + n for a non-negative integer n
RECURSIVE ToStr(_)
ToStr(n) == IF n < 10 THEN <<DigitChar(n)>>
            ELSE ToStr(n \div 10) \o <<DigitChar(n % 10)>>

\* s.split("\n"): always at least one line; a trailing newline yields a last
\* empty line
RECURSIVE Split(_)
Split(s) ==
    IF s = <<>> THEN << <<>> >>
    ELSE LET rest == Split(Tail(s)) IN
         IF Head(s) = NL THEN << <<>> >> \o rest
         ELSE << <<Head(s)>> \o Head(rest) >> \o Tail(rest)

\* lines.join("\n")
RECURSIVE Join(_)
Join(lines) ==
    IF lines = <<>> THEN <<>>
    ELSE IF Len(lines) = 1 THEN lines[1]
    ELSE lines[1] \o <<NL>> \o Join(Tail(lines))

\* lines.filter(line => line.length > 0)
RECURSIVE NonEmptyLines(_)
NonEmptyLines(lines) ==
    IF lines = <<>> THEN <<>>
    ELSE IF Head(lines) = <<>> THEN NonEmptyLines(Tail(lines))
    ELSE <<Head(lines)>> \o NonEmptyLines(Tail(lines))

RECURSIVE DigitsPrefix(_)
DigitsPrefix(s) ==
    IF s = <<>> \/ Head(s) \notin Digits THEN <<>>
    ELSE <<Head(s)>> \o DigitsPrefix(Tail(s))

RECURSIVE DigitsValue(_)
DigitsValue(ds) ==
    IF ds = <<>> THEN 0
    ELSE 10 * DigitsValue(SubSeq(ds, 1, Len(ds) - 1)) + DigitVal(ds[Len(ds)])

NaN == [nan |-> TRUE, val |-> 0]

\* Number.parseInt(s): an optional sign, then the longest prefix of decimal
\* digits; NaN when there is no digit
ParseInt(s) ==
    LET neg  == s # <<>> /\ Head(s) = "-"
        body == IF neg THEN Tail(s) ELSE s
        ds   == DigitsPrefix(body)
    IN IF ds = <<>> THEN NaN
       ELSE [nan |-> FALSE,
             val |-> IF neg THEN 0 - DigitsValue(ds) ELSE DigitsValue(ds)]

-----------------------------------------------------------------------------
(* SequencerState and CommitAndRef *)

Null  == [kind |-> "null"]
Raise == [kind |-> "raise"]

CHERRY_PICK == <<"CHERRY_PICK">>
MERGE       == <<"MERGE">>
REBASE      == <<"REBASE">>

TYPE == {CHERRY_PICK, MERGE, REBASE}

\* Property names every object literal inherits: `name in TYPE` and chai's
\* assert.property(TYPE, name) are true of them as well.
InheritedProps == {<<"toString">>}

NoRef == [has |-> FALSE, val |-> <<>>]
Ref(r) == [has |-> TRUE, val |-> r]

CommitAndRef(sha, ref) == [sha |-> sha, ref |-> ref]

HasProperty(type) == type \in TYPE \cup InheritedProps

\* new SequencerState(...): the assertions of the constructor raise
SequencerState(type, originalHead, target, commits, currentCommit) ==
    IF HasProperty(type) /\ 0 <= currentCommit /\ Len(commits) > currentCommit
    THEN [kind |-> "state", type |-> type, originalHead |-> originalHead,
          target |-> target, commits |-> commits,
          currentCommit |-> currentCommit]
    ELSE Raise

-----------------------------------------------------------------------------
(* The sequencer directory *)

TYPE_FILE           == "TYPE"
ORIGINAL_HEAD_FILE  == "ORIGINAL_HEAD"
TARGET_FILE         == "TARGET"
COMMITS_FILE        == "COMMITS"
CURRENT_COMMIT_FILE == "CURRENT_COMMIT"

FileNames == {TYPE_FILE, ORIGINAL_HEAD_FILE, TARGET_FILE, COMMITS_FILE,
              CURRENT_COMMIT_FILE}

NoFile == [present |-> FALSE, data |-> <<>>]
File(content) == [present |-> TRUE, data |-> content]

NoDir    == [exists |-> FALSE, files |-> [f \in FileNames |-> NoFile]]
EmptyDir == [exists |-> TRUE, files |-> [f \in FileNames |-> NoFile]]

\* fs.writeFile(path.join(root, name), content)
WriteFile(d, name, content) ==
    [d EXCEPT !.files[name] = File(content)]

\* readFile: the content, or null if the file cannot be read
readFile(d, name) ==
    IF d.exists /\ d.files[name].present
    THEN [kind |-> "str", val |-> d.files[name].data]
    ELSE Null

readCommitAndRef(d, fileName) ==
    LET content == readFile(d, fileName) IN
    IF content # Null
    THEN LET lines == Split(content.val)
             numLines == Len(lines) - 1
         IN IF numLines = 1 \/ numLines = 2
            THEN CommitAndRef(lines[1],
                              IF numLines = 2 THEN Ref(lines[2]) ELSE NoRef)
            ELSE Null
    ELSE Null

readCommits(d) ==
    LET content == readFile(d, COMMITS_FILE) IN
    IF content # Null
    THEN LET nonEmpty == NonEmptyLines(Split(content.val)) IN
         IF Len(nonEmpty) # 0 THEN [kind |-> "list", val |-> nonEmpty]
         ELSE Null
    ELSE Null

readCurrentCommit(d, numCommits) ==
    LET content == readFile(d, CURRENT_COMMIT_FILE) IN
    IF content # Null
    THEN LET lines == Split(content.val)
             index == ParseInt(lines[1])
         IN IF ~index.nan /\ index.val < numCommits
            THEN [kind |-> "num", val |-> index.val]
            ELSE Null
    ELSE Null

readSequencerState(d) ==
    LET typeContent == readFile(d, TYPE_FILE) IN
    IF typeContent = Null THEN Null ELSE
    LET typeLines == Split(typeContent.val) IN
    IF Len(typeLines) # 2 THEN Null ELSE
    LET type == typeLines[1] IN
    IF ~HasProperty(type) THEN Null ELSE
    LET original == readCommitAndRef(d, ORIGINAL_HEAD_FILE) IN
    IF original = Null THEN Null ELSE
    LET target == readCommitAndRef(d, TARGET_FILE) IN
    IF target = Null THEN Null ELSE
    LET commits == readCommits(d) IN
    IF commits = Null THEN Null ELSE
    LET currentCommit == readCurrentCommit(d, Len(commits.val)) IN
    IF currentCommit = Null THEN Null ELSE
    SequencerState(type, original, target, commits.val, currentCommit.val)

cleanSequencerStateMutKeepDir(d) == EmptyDir

\* rimraf of the directory: succeeds whether or not it exists
cleanSequencerState(d) == NoDir

writeCommitAndRefMutDropRef(d, name, commitAndRef) ==
    WriteFile(d, name, commitAndRef.sha \o <<NL>>)

writeCommitAndRef(d, name, commitAndRef) ==
    WriteFile(d, name,
              commitAndRef.sha \o <<NL>> \o
              (IF commitAndRef.ref # NoRef
               THEN commitAndRef.ref.val \o <<NL>> ELSE <<>>))

NumWriteSteps == 7

WriteStepMutNoClean(d, state, k) ==
    CASE k = 1 -> d
      [] k = 2 -> IF d.exists THEN d ELSE EmptyDir
      [] k = 3 -> WriteFile(d, TYPE_FILE, state.type \o <<NL>>)
      [] k = 4 -> writeCommitAndRef(d, ORIGINAL_HEAD_FILE, state.originalHead)
      [] k = 5 -> writeCommitAndRef(d, TARGET_FILE, state.target)
      [] k = 6 -> WriteFile(d, COMMITS_FILE, Join(state.commits))
      [] k = 7 -> WriteFile(d, CURRENT_COMMIT_FILE, ToStr(state.currentCommit))

WriteStepMutKeepTarget(d, state, k) ==
    CASE k = 1 -> d
      [] k = 2 -> IF d.exists THEN d ELSE EmptyDir
      [] k = 3 -> WriteFile(d, TYPE_FILE, state.type \o <<NL>>)
      [] k = 4 -> writeCommitAndRef(d, ORIGINAL_HEAD_FILE, state.originalHead)
      [] k = 5 -> d
      [] k = 6 -> WriteFile(d, COMMITS_FILE, Join(state.commits))
      [] k = 7 -> WriteFile(d, CURRENT_COMMIT_FILE, ToStr(state.currentCommit))

\* The k-th step of writeSequencerState(gitDir, state), one per yield
WriteStep(d, state, k) ==
    CASE k = 1 -> cleanSequencerState(d)
      [] k = 2 -> EmptyDir
      [] k = 3 -> WriteFile(d, TYPE_FILE, state.type \o <<NL>>)
      [] k = 4 -> writeCommitAndRef(d, ORIGINAL_HEAD_FILE, state.originalHead)
      [] k = 5 -> writeCommitAndRef(d, TARGET_FILE, state.target)
      [] k = 6 -> WriteFile(d, COMMITS_FILE, Join(state.commits))
      [] k = 7 -> WriteFile(d, CURRENT_COMMIT_FILE, ToStr(state.currentCommit))

RECURSIVE WriteSteps(_, _, _)
WriteSteps(d, state, k) ==
    IF k > NumWriteSteps THEN d
    ELSE WriteSteps(WriteStep(d, state, k), state, k + 1)

writeSequencerState(d, state) == WriteSteps(d, state, 1)

-----------------------------------------------------------------------------
(* The meta-repo, its sub-repos and the target commit *)

Paths == {"s", "t"}

\* the paths in the order of Array.prototype.sort
PathOrder == <<"s", "t">>

Sorted(S) == SelectSeq(PathOrder, LAMBDA p : p \in S)

SortKeysMutUnsorted(keys) == keys

\* Object.keys(object).sort() for an object whose keys were inserted in the
\* order `keys`
SortKeys(keys) == Sorted({keys[i] : i \in DOMAIN keys})

Shas == 1..MaxSha

FILEMODE_COMMIT == "commit"
FILEMODE_BLOB   == "blob"

\* tree and index entries; sha 0 stands for null
Absent    == [kind |-> "absent", filemode |-> "none", sha |-> 0]
FileEntry == [kind |-> "entry", filemode |-> FILEMODE_BLOB, sha |-> 0]
SubEntry(sha) == [kind |-> "entry", filemode |-> FILEMODE_COMMIT, sha |-> sha]

IsSub(e) == e.kind = "entry" /\ e.filemode = FILEMODE_COMMIT

\* ConflictUtil.ConflictEntry / ConflictUtil.Conflict; NoSlot is a null slot
NoSlot == [filemode |-> "none", sha |-> 0]
ConflictEntry(filemode, sha) == [filemode |-> filemode, sha |-> sha]
Conflict(ancestor, our, their) ==
    [kind |-> "conflict", ancestor |-> ancestor, our |-> our, their |-> their]

\* Submodule(url, sha); NullSub is the null of a simple deletion
Submodule(url, sha) == [url |-> url, sha |-> sha]
NullSub == [url |-> "none", sha |-> 0]

SubmoduleChange(oldSha, newSha) == [oldSha |-> oldSha, newSha |-> newSha]

ClosedSub == [open |-> FALSE, head |-> 0, dirty |-> "clean",
              picking |-> FALSE, conflicted |-> FALSE]
OpenSub(sha, dirty) == [open |-> TRUE, head |-> sha, dirty |-> dirty,
                        picking |-> FALSE, conflicted |-> FALSE]

\* commit.id().tostrS() and repo.getCommit(sha) for meta-repo commits
ShaOf(id) == ToStr(id)
IdOf(sha) == ParseInt(sha).val

HeadTree == metaCommits[head].tree

\* getTreeEntry(tree, path): the entry, or null
getTreeEntry(tree, path) ==
    IF tree = Null THEN Absent ELSE tree[path]

-----------------------------------------------------------------------------
(* containsUrlChanges and computeChanges *)

containsUrlChangesMutNever(commit) == FALSE

\* a URL that differs between the first parent and the commit, for a name
\* that both have
containsUrlChanges(commit) ==
    \E name \in DOMAIN commit.parentUrls :
        /\ name \in DOMAIN commit.commitUrls
        /\ commit.parentUrls[name] # commit.commitUrls[name]

makeConflict(headEntry, baseEntry, change) ==
    Conflict(IF baseEntry # Absent
             THEN ConflictEntry(baseEntry.filemode, baseEntry.sha)
             ELSE NoSlot,
             IF headEntry # Absent
             THEN ConflictEntry(headEntry.filemode, headEntry.sha)
             ELSE NoSlot,
             IF change.newSha # 0
             THEN ConflictEntry(FILEMODE_COMMIT, change.newSha)
             ELSE NoSlot)

ClassOfMutDeleteAlways(headEntry, change) ==
    IF headEntry = Absent
    THEN IF change.oldSha = 0 THEN "simple"
         ELSE IF change.newSha # 0 THEN "conflict"
         ELSE "none"
    ELSE IF headEntry.filemode # FILEMODE_COMMIT THEN "conflict"
    ELSE IF change.oldSha = 0
    THEN IF headEntry.sha # change.newSha THEN "conflict" ELSE "none"
    ELSE IF change.newSha = 0
    THEN "simple"
    ELSE IF change.newSha # headEntry.sha
    THEN IF change.oldSha = headEntry.sha THEN "simple" ELSE "change"
    ELSE "none"

ClassOfMutAbsentRemoval(headEntry, change) ==
    IF headEntry = Absent
    THEN IF change.oldSha = 0 THEN "simple"
         ELSE "conflict"
    ELSE IF headEntry.filemode # FILEMODE_COMMIT THEN "conflict"
    ELSE IF change.oldSha = 0
    THEN IF headEntry.sha # change.newSha THEN "conflict" ELSE "none"
    ELSE IF change.newSha = 0
    THEN IF headEntry.sha = change.oldSha THEN "simple" ELSE "conflict"
    ELSE IF change.newSha # headEntry.sha
    THEN IF change.oldSha = headEntry.sha THEN "simple" ELSE "change"
    ELSE "none"

ClassOfMutNoFilemodeTest(headEntry, change) ==
    IF headEntry = Absent
    THEN IF change.oldSha = 0 THEN "simple"
         ELSE IF change.newSha # 0 THEN "conflict"
         ELSE "none"
    ELSE IF change.oldSha = 0
    THEN IF headEntry.sha # change.newSha THEN "conflict" ELSE "none"
    ELSE IF change.newSha = 0
    THEN IF headEntry.sha = change.oldSha THEN "simple" ELSE "conflict"
    ELSE IF change.newSha # headEntry.sha
    THEN IF change.oldSha = headEntry.sha THEN "simple" ELSE "change"
    ELSE "none"

ClassOfMutAddConflicts(headEntry, change) ==
    IF headEntry = Absent
    THEN IF change.oldSha = 0 THEN "simple"
         ELSE IF change.newSha # 0 THEN "conflict"
         ELSE "none"
    ELSE IF headEntry.filemode # FILEMODE_COMMIT THEN "conflict"
    ELSE IF change.oldSha = 0
    THEN "conflict"
    ELSE IF change.newSha = 0
    THEN IF headEntry.sha = change.oldSha THEN "simple" ELSE "conflict"
    ELSE IF change.newSha # headEntry.sha
    THEN IF change.oldSha = headEntry.sha THEN "simple" ELSE "change"
    ELSE "none"

ClassOfMutSimpleUpdate(headEntry, change) ==
    IF headEntry = Absent
    THEN IF change.oldSha = 0 THEN "simple"
         ELSE IF change.newSha # 0 THEN "conflict"
         ELSE "none"
    ELSE IF headEntry.filemode # FILEMODE_COMMIT THEN "conflict"
    ELSE IF change.oldSha = 0
    THEN IF headEntry.sha # change.newSha THEN "conflict" ELSE "none"
    ELSE IF change.newSha = 0
    THEN IF headEntry.sha = change.oldSha THEN "simple" ELSE "conflict"
    ELSE IF change.newSha # headEntry.sha
    THEN "simple"
    ELSE "none"

ClassOfMutNoNewShaTest(headEntry, change) ==
    IF headEntry = Absent
    THEN IF change.oldSha = 0 THEN "simple"
         ELSE IF change.newSha # 0 THEN "conflict"
         ELSE "none"
    ELSE IF headEntry.filemode # FILEMODE_COMMIT THEN "conflict"
    ELSE IF change.oldSha = 0
    THEN IF headEntry.sha # change.newSha THEN "conflict" ELSE "none"
    ELSE IF change.newSha = 0
    THEN IF headEntry.sha = change.oldSha THEN "simple" ELSE "conflict"
    ELSE IF change.oldSha = headEntry.sha THEN "simple" ELSE "change"

\* the branch of computeChanges a changed path takes
ClassOf(headEntry, change) ==
    IF headEntry = Absent
    THEN IF change.oldSha = 0 THEN "simple"
         ELSE IF change.newSha # 0 THEN "conflict"
         ELSE "none"
    ELSE IF headEntry.filemode # FILEMODE_COMMIT THEN "conflict"
    ELSE IF change.oldSha = 0
    THEN IF headEntry.sha # change.newSha THEN "conflict" ELSE "none"
    ELSE IF change.newSha = 0
    THEN IF headEntry.sha = change.oldSha THEN "simple" ELSE "conflict"
    ELSE IF change.newSha # headEntry.sha
    THEN IF change.oldSha = headEntry.sha THEN "simple" ELSE "change"
    ELSE "none"

computeChangesMutConflictSpreads(headTree, baseTree, commit) ==
    LET subChanges == commit.changes
        touched    == DOMAIN subChanges
        own(sub)   == ClassOf(getTreeEntry(headTree, sub), subChanges[sub])
        class(sub) == IF own(sub) # "none" /\ \E x \in touched : own(x) = "conflict"
                      THEN "conflict" ELSE own(sub)
    IN [changes |->
            [sub \in {x \in touched : class(x) = "change"} |-> subChanges[sub]],
        simpleChanges |->
            [sub \in {x \in touched : class(x) = "simple"} |->
                IF subChanges[sub].newSha = 0 THEN NullSub
                ELSE Submodule(commit.commitUrls[sub], subChanges[sub].newSha)],
        conflicts |->
            [sub \in {x \in touched : class(x) = "conflict"} |->
                makeConflict(getTreeEntry(headTree, sub),
                             getTreeEntry(baseTree, sub),
                             subChanges[sub])]]

computeChanges(headTree, baseTree, commit) ==
    LET subChanges == commit.changes
        touched    == DOMAIN subChanges
        class(sub) == ClassOf(getTreeEntry(headTree, sub), subChanges[sub])
    IN [changes |->
            [sub \in {x \in touched : class(x) = "change"} |-> subChanges[sub]],
        simpleChanges |->
            [sub \in {x \in touched : class(x) = "simple"} |->
                IF subChanges[sub].newSha = 0 THEN NullSub
                ELSE Submodule(commit.commitUrls[sub], subChanges[sub].newSha)],
        conflicts |->
            [sub \in {x \in touched : class(x) = "conflict"} |->
                makeConflict(getTreeEntry(headTree, sub),
                             getTreeEntry(baseTree, sub),
                             subChanges[sub])]]

NoChanges == [changes |-> <<>>, simpleChanges |-> <<>>, conflicts |-> <<>>]

-----------------------------------------------------------------------------
(* Status of the tree of repositories *)

\* RepoStatus.isDeepClean: no staged or workdir change in the meta-repo or
\* in any open sub-repo
isDeepClean ==
    /\ metaDirty = "clean"
    /\ diskIndex = HeadTree
    /\ urls = metaCommits[head].urls
    /\ \A p \in Paths :
         subs[p].open =>
            /\ subs[p].dirty = "clean"
            /\ ~subs[p].picking
            /\ ~subs[p].conflicted
            /\ IsSub(diskIndex[p]) /\ diskIndex[p].sha = subs[p].head

\* RepoStatus.isConflicted: conflict markers in the index of the meta-repo
\* or of an open sub-repo
isConflicted ==
    \/ \E p \in Paths : diskIndex[p].kind = "conflict"
    \/ \E p \in Paths : subs[p].open /\ subs[p].conflicted

\* RepoStatus.isIndexDeepClean: nothing staged in the meta-repo or in an open
\* sub-repo
isIndexDeepClean ==
    /\ metaDirty # "staged"
    /\ diskIndex = HeadTree
    /\ \A p \in Paths : subs[p].open => subs[p].dirty # "staged"

-----------------------------------------------------------------------------
(* Initial states of the cherry-pick protocol *)

\* how the target commit changes a sub-repo pointer relative to its first
\* parent: an addition, a deletion, an update
TargetChanges ==
    {SubmoduleChange(0, 2), SubmoduleChange(1, 0), SubmoduleChange(1, 2)}

HeadEntries == {Absent, FileEntry} \cup {SubEntry(sha) : sha \in Shas}

DirtyKinds == {"clean", "staged", "workdir"}

\* the sub-repos that can stand behind an entry of the HEAD tree
SubsFor(entry) ==
    IF IsSub(entry)
    THEN {ClosedSub} \cup {OpenSub(entry.sha, d) : d \in DirtyKinds}
    ELSE {ClosedSub}

\* the target commit: its id, signature and message, the sub-repo changes
\* and URL maps relative to its first parent, and the merge-base tree
TargetCommit(tree, subChanges, urlChanged) ==
    LET inParent(p) == IF p \in DOMAIN subChanges
                       THEN subChanges[p].oldSha # 0 ELSE IsSub(tree[p])
        inCommit(p) == IF p \in DOMAIN subChanges
                       THEN subChanges[p].newSha # 0 ELSE IsSub(tree[p])
    IN [id |-> 2,
        author |-> "target author",
        committer |-> "target committer",
        message |-> "target message",
        changes |-> subChanges,
        parentUrls |-> [p \in {x \in Paths : inParent(x)} |-> "u1"],
        commitUrls |-> [p \in {x \in Paths : inCommit(x)} |->
                            IF p \in urlChanged THEN "u2" ELSE "u1"],
        baseTree |-> [p \in Paths |->
                        IF p \in DOMAIN subChanges /\ subChanges[p].oldSha # 0
                        THEN SubEntry(subChanges[p].oldSha)
                        ELSE IF p \in DOMAIN subChanges THEN Absent
                        ELSE tree[p]]]

\* a sequencer state another operation left behind
MergeInProgress ==
    SequencerState(MERGE, CommitAndRef(ShaOf(1), Ref(<<"r">>)),
                   CommitAndRef(ShaOf(2), NoRef), <<ShaOf(2)>>, 0)

Idle == [name |-> "none", pc |-> "idle"]

\* what pickSubs returns before any pick: result.conflicts is kept as the
\* names in the order in which they were inserted
NoPicks == [commits |-> <<>>, conflicts |-> <<>>]

NoResult == [kind |-> "none", op |-> "none"]

NoSnap == [head |-> 0, objects |-> {}]

OpLocalsReset ==
    /\ memIndex' = Null
    /\ changes' = NoChanges
    /\ errorMessage' = <<>>
    /\ picks' = NoPicks
    /\ inflight' = {}

Repos == {"meta"} \cup Paths

\* no checkoutCommit is running or has run
NotThrown == [kind |-> "none"]

CheckoutParked ==
    /\ checkoutRepos = [r \in Repos |-> [head |-> 1, workdir |-> 1,
                                         blocked |-> FALSE]]
    /\ openSubs = {}
    /\ shas = <<>>
    /\ force = FALSE
    /\ errors = <<>>
    /\ cache = <<>>
    /\ pendingSubs = {}
    /\ cpc = "parked"
    /\ thrown = NotThrown

StoreParked ==
    /\ pending = Null
    /\ prior = Null
    /\ wpc = 0
    /\ hist = "clean"
    /\ readResult = [kind |-> "none"]
    /\ rpc = 0
    /\ rbuf = [f \in FileNames |-> NoFile]

\* no call of doInParallel or doInBatches is under way
QueueParked ==
    /\ queue = <<>>
    /\ failing = {}
    /\ next = 0
    /\ resultArray = <<>>
    /\ work = <<>>
    /\ calls = <<>>
    /\ settled = <<>>
    /\ promise = "none"
    /\ batched = [kind |-> "none"]

Init ==
    /\ CheckoutParked
    /\ StoreParked
    /\ QueueParked
    /\ head = 1
    /\ \E tree \in [Paths -> HeadEntries] :
         /\ metaCommits = (1 :> [parent |-> 0, tree |-> tree,
                             urls |-> [p \in Paths |->
                                         IF IsSub(tree[p]) THEN "u1"
                                         ELSE "none"],
                             author |-> "head author",
                             committer |-> "head committer",
                             message |-> "head message"])
         /\ diskIndex = tree
         /\ urls = [p \in Paths |-> IF IsSub(tree[p]) THEN "u1" ELSE "none"]
         /\ subs \in {f \in [Paths -> {ClosedSub} \cup
                                  {OpenSub(sha, d) : sha \in Shas,
                                                     d \in DirtyKinds}] :
                        \A p \in Paths : f[p] \in SubsFor(tree[p])}
         /\ \E touched \in SUBSET Paths :
            \E subChanges \in [touched -> TargetChanges] :
            \E urlChanged \in {{}} \cup {{p} : p \in Paths} :
               targetCommit = TargetCommit(tree, subChanges, urlChanged)
    /\ metaDirty \in DirtyKinds
    /\ disk \in {NoDir, writeSequencerState(NoDir, MergeInProgress)}
    /\ op = Idle
    /\ memIndex = Null
    /\ changes = NoChanges
    /\ errorMessage = <<>>
    /\ picks = NoPicks
    /\ inflight = {}
    /\ result = NoResult
    /\ snap = NoSnap

-----------------------------------------------------------------------------
(* cherryPick *)

UserError(name, msg) == [kind |-> "UserError", op |-> name, msg |-> msg]

ReturnedMutNoCommit(name, newMetaCommit, message, subCommits) ==
    [kind |-> "returned", op |-> name, newMetaCommit |-> 0,
     errorMessage |-> message, submoduleCommits |-> subCommits]

\* the object cherryPick and continue return; newMetaCommit 0 and
\* errorMessage <<>> stand for null
Returned(name, newMetaCommit, message, subCommits) ==
    [kind |-> "returned", op |-> name, newMetaCommit |-> newMetaCommit,
     errorMessage |-> message, submoduleCommits |-> subCommits]

\* an exception that is no UserError: a failed fetch, a failed replay
Failed(name) == [kind |-> "error", op |-> name]

DirtyMessage == "The repository has uncommitted changes."
UrlMessage == "Cherry-picking commits with submodule URL changes is not currently supported."
NotReadyMessage == "Before proceeding, you must complete the operation in progress."
NothingMessage == "Nothing to commit."
NoCherryMessage == "No cherry-pick in progress."
ResolveMessage == "Resolve conflicts then continue cherry-pick."

\* the id the next commit object of the meta-repo gets
NextCommitId ==
    1 + (CHOOSE m \in DOMAIN metaCommits \cup {targetCommit.id} :
            \A n \in DOMAIN metaCommits \cup {targetCommit.id} : n <= m)

\* the id of the commit a replay onto `sha` creates
Rewritten(sha) == sha + MaxSha

\* the sequencer state cherryPick records
CherryPickSeq(headId, commitId) ==
    SequencerState(CHERRY_PICK,
                   CommitAndRef(ShaOf(headId), NoRef),
                   CommitAndRef(ShaOf(commitId), NoRef),
                   <<ShaOf(commitId)>>,
                   0)

\* StatusUtil.ensureReady(status) throws: another operation is in progress
ensureReady == readSequencerState(disk) # Null

\* which sanity check of cherryPick refuses the operation, if any
CherryPickCheck ==
    IF ensureReady THEN NotReadyMessage
    ELSE IF ~isDeepClean THEN DirtyMessage
    ELSE IF containsUrlChanges(targetCommit) THEN UrlMessage
    ELSE "ok"

\* cherryPick up to the point where it is about to record the sequencer:
\* the status, the sanity checks, computeChanges, the index object
CherryPickBegin ==
    /\ op = Idle
    /\ NextCommitId <= MaxCommitId
    /\ IF CherryPickCheck # "ok"
       THEN /\ result' = UserError("cherryPick", CherryPickCheck)
            /\ UNCHANGED <<memIndex, op, changes, errorMessage, picks,
                           inflight, snap>>
       ELSE /\ changes' = computeChanges(HeadTree, targetCommit.baseTree, targetCommit)
            /\ memIndex' = diskIndex
            /\ snap' = [head |-> head, index |-> diskIndex,
                        metaDirty |-> metaDirty, subs |-> subs, urls |-> urls,
                        objects |-> DOMAIN metaCommits]
            /\ op' = [name |-> "cherryPick", pc |-> "write"]
            /\ result' = NoResult
            /\ UNCHANGED <<errorMessage, picks, inflight>>
    /\ UNCHANGED <<disk, repoVars, targetCommit, storeVars, checkoutVars, queueVars>>

CherryPickWriteSeqMutSkip ==
    /\ op = [name |-> "cherryPick", pc |-> "write"]
    /\ op' = [op EXCEPT !.pc = "simple"]
    /\ UNCHANGED <<disk, repoVars, targetCommit, storeVars, checkoutVars, queueVars, memIndex, changes,
                   errorMessage, picks, inflight, result, snap>>

\* yield SequencerStateUtil.writeSequencerState(metaRepo.path(), seq)
CherryPickWriteSeq ==
    /\ op = [name |-> "cherryPick", pc |-> "write"]
    /\ disk' = writeSequencerState(disk, CherryPickSeq(head, targetCommit.id))
    /\ op' = [op EXCEPT !.pc = "simple"]
    /\ UNCHANGED <<repoVars, targetCommit, storeVars, checkoutVars, queueVars, memIndex, changes,
                   errorMessage, picks, inflight, result, snap>>

changeSubmodulesMutKeepsUrl(idx, ss, us, submodules) ==
    LET names == DOMAIN submodules IN
    [index |-> [p \in Paths |->
                  IF p \notin names THEN idx[p]
                  ELSE IF submodules[p] = NullSub THEN Absent
                  ELSE SubEntry(submodules[p].sha)],
     subs  |-> [p \in Paths |->
                  IF p \notin names THEN ss[p]
                  ELSE IF submodules[p] = NullSub THEN ClosedSub
                  ELSE IF ss[p].open THEN OpenSub(submodules[p].sha, "clean")
                  ELSE ss[p]],
     urls  |-> [p \in Paths |->
                  IF p \notin names THEN us[p]
                  ELSE IF submodules[p] = NullSub THEN us[p]
                  ELSE IF ss[p].open THEN us[p]
                  ELSE submodules[p].url]]

changeSubmodulesMutOpensClosed(idx, ss, us, submodules) ==
    LET names == DOMAIN submodules IN
    [index |-> [p \in Paths |->
                  IF p \notin names THEN idx[p]
                  ELSE IF submodules[p] = NullSub THEN Absent
                  ELSE SubEntry(submodules[p].sha)],
     subs  |-> [p \in Paths |->
                  IF p \notin names THEN ss[p]
                  ELSE IF submodules[p] = NullSub THEN ClosedSub
                  ELSE OpenSub(submodules[p].sha, "clean")],
     urls  |-> [p \in Paths |->
                  IF p \notin names THEN us[p]
                  ELSE IF submodules[p] = NullSub THEN "none"
                  ELSE us[p]]]

\* changeSubmodules: what it makes of the index object, the sub-repos and
\* the URL map
changeSubmodules(idx, ss, us, submodules) ==
    LET names == DOMAIN submodules IN
    [index |-> [p \in Paths |->
                  IF p \notin names THEN idx[p]
                  ELSE IF submodules[p] = NullSub THEN Absent
                  ELSE SubEntry(submodules[p].sha)],
     subs  |-> [p \in Paths |->
                  IF p \notin names THEN ss[p]
                  ELSE IF submodules[p] = NullSub THEN ClosedSub
                  ELSE IF ss[p].open THEN OpenSub(submodules[p].sha, "clean")
                  ELSE ss[p]],
     urls  |-> [p \in Paths |->
                  IF p \notin names THEN us[p]
                  ELSE IF submodules[p] = NullSub THEN "none"
                  ELSE IF ss[p].open THEN us[p]
                  ELSE submodules[p].url]]

CherryPickChangeSubmodules ==
    /\ op = [name |-> "cherryPick", pc |-> "simple"]
    /\ LET r == changeSubmodules(memIndex, subs, urls, changes.simpleChanges)
       IN /\ memIndex' = r.index
          /\ subs' = r.subs
          /\ urls' = r.urls
    /\ op' = [op EXCEPT !.pc = "conflicts"]
    /\ UNCHANGED <<disk, head, metaCommits, diskIndex, metaDirty, targetCommit, storeVars, checkoutVars, queueVars,
                   changes, errorMessage, picks, inflight, result, snap>>

ConflictingLine(name) == <<"Conflicting entries for submodule", name>>
ConflictedLine(name)  == <<"Submodule is conflicted", name>>

ConflictingLines(names) ==
    [i \in 1..Len(names) |-> ConflictingLine(names[i])]

ConflictedLines(names) ==
    [i \in 1..Len(names) |-> ConflictedLine(names[i])]

\* writeConflicts: the conflicts go into the index object, one report line
\* for each, in sorted order; then pickSubs starts a pick for every path
CherryPickWriteConflicts ==
    /\ op = [name |-> "cherryPick", pc |-> "conflicts"]
    /\ memIndex' = [p \in Paths |->
                      IF p \in DOMAIN changes.conflicts
                      THEN changes.conflicts[p] ELSE memIndex[p]]
    /\ errorMessage' = ConflictingLines(Sorted(DOMAIN changes.conflicts))
    /\ inflight' = DOMAIN changes.changes
    /\ op' = [op EXCEPT !.pc = "pick"]
    /\ UNCHANGED <<disk, repoVars, targetCommit, storeVars, checkoutVars, queueVars, changes, picks,
                   result, snap>>

\* what RebaseUtil.rewriteCommits, or the fetch before it, comes to
ReplayOutcomes == {"commits", "nothing", "conflict", "conflict after commit",
                   "failure"}

\* the sub-repo opener.getSubrepo(name) returns: a closed one is opened on
\* the commit recorded in HEAD
getSubrepo(name) ==
    IF subs[name].open THEN subs[name]
    ELSE OpenSub(HeadTree[name].sha, "clean")

PickSubMutFailureCleans(name) ==
    /\ op = [name |-> "cherryPick", pc |-> "pick"]
    /\ name \in inflight
    /\ \E outcome \in ReplayOutcomes :
         LET repo == getSubrepo(name)
             moved == outcome \in {"commits", "conflict after commit"}
             stuck == outcome \in {"conflict", "conflict after commit"}
             after == [repo EXCEPT
                         !.head = IF moved THEN Rewritten(repo.head) ELSE @,
                         !.picking = stuck,
                         !.conflicted = stuck]
         IN IF outcome = "failure"
            THEN /\ subs' = [subs EXCEPT ![name] = repo]
                 /\ result' = Failed("cherryPick")
                 /\ disk' = cleanSequencerState(disk)
                 /\ op' = Idle
                 /\ OpLocalsReset
            ELSE /\ subs' = [subs EXCEPT ![name] = after]
                 /\ picks' =
                      [commits |-> (name :> (IF moved THEN <<after.head>>
                                             ELSE <<>>)) @@ picks.commits,
                       conflicts |-> IF stuck
                                     THEN Append(picks.conflicts, name)
                                     ELSE picks.conflicts]
                 /\ memIndex' = [memIndex EXCEPT ![name] = SubEntry(after.head)]
                 /\ inflight' = inflight \ {name}
                 /\ UNCHANGED <<disk, op, changes, errorMessage, result>>
    /\ UNCHANGED <<head, metaCommits, diskIndex, metaDirty, urls, targetCommit,
                   storeVars, checkoutVars, queueVars, snap>>

PickSubMutStageOnSuccess(name) ==
    /\ op = [name |-> "cherryPick", pc |-> "pick"]
    /\ name \in inflight
    /\ \E outcome \in ReplayOutcomes :
         LET repo == getSubrepo(name)
             moved == outcome \in {"commits", "conflict after commit"}
             stuck == outcome \in {"conflict", "conflict after commit"}
             after == [repo EXCEPT
                         !.head = IF moved THEN Rewritten(repo.head) ELSE @,
                         !.picking = stuck,
                         !.conflicted = stuck]
         IN IF outcome = "failure"
            THEN /\ subs' = [subs EXCEPT ![name] = repo]
                 /\ result' = Failed("cherryPick")
                 /\ op' = Idle
                 /\ OpLocalsReset
            ELSE /\ subs' = [subs EXCEPT ![name] = after]
                 /\ picks' =
                      [commits |-> (name :> (IF moved THEN <<after.head>>
                                             ELSE <<>>)) @@ picks.commits,
                       conflicts |-> IF stuck
                                     THEN Append(picks.conflicts, name)
                                     ELSE picks.conflicts]
                 /\ memIndex' = IF stuck THEN memIndex
                               ELSE [memIndex EXCEPT
                                       ![name] = SubEntry(after.head)]
                 /\ inflight' = inflight \ {name}
                 /\ UNCHANGED <<op, changes, errorMessage, result>>
    /\ UNCHANGED <<disk, head, metaCommits, diskIndex, metaDirty, urls, targetCommit,
                   storeVars, checkoutVars, queueVars, snap>>

\* pickSub(name), run by the work queue
PickSub(name) ==
    /\ op = [name |-> "cherryPick", pc |-> "pick"]
    /\ name \in inflight
    /\ \E outcome \in ReplayOutcomes :
         LET repo == getSubrepo(name)
             moved == outcome \in {"commits", "conflict after commit"}
             stuck == outcome \in {"conflict", "conflict after commit"}
             after == [repo EXCEPT
                         !.head = IF moved THEN Rewritten(repo.head) ELSE @,
                         !.picking = stuck,
                         !.conflicted = stuck]
         IN IF outcome = "failure"
            THEN /\ subs' = [subs EXCEPT ![name] = repo]
                 /\ result' = Failed("cherryPick")
                 /\ op' = Idle
                 /\ OpLocalsReset
            ELSE /\ subs' = [subs EXCEPT ![name] = after]
                 /\ picks' =
                      [commits |-> (name :> (IF moved THEN <<after.head>>
                                             ELSE <<>>)) @@ picks.commits,
                       conflicts |-> IF stuck
                                     THEN Append(picks.conflicts, name)
                                     ELSE picks.conflicts]
                 /\ memIndex' = [memIndex EXCEPT ![name] = SubEntry(after.head)]
                 /\ inflight' = inflight \ {name}
                 /\ UNCHANGED <<op, changes, errorMessage, result>>
    /\ UNCHANGED <<disk, head, metaCommits, diskIndex, metaDirty, urls, targetCommit,
                   storeVars, checkoutVars, queueVars, snap>>

ReportIsEmptyMutAlways(message) == TRUE

\* "" === errorMessage
ReportIsEmpty(message) == message = <<>>

\* cherryPick decides there is nothing to commit
NothingToCommit(simpleChanges, pickedCommits) ==
    DOMAIN simpleChanges = {} /\ DOMAIN pickedCommits = {}

\* cherryPick after pickSubs: the report, metaIndex.write(), and the choice
\* between returning the report, "Nothing to commit." and finish
CherryPickCollect ==
    /\ op = [name |-> "cherryPick", pc |-> "pick"]
    /\ inflight = {}
    /\ LET message == errorMessage \o
                      ConflictedLines(SortKeys(picks.conflicts))
       IN /\ diskIndex' = memIndex
          /\ IF ~ReportIsEmpty(message)
             THEN /\ result' = Returned("cherryPick", 0, message, picks.commits)
                  /\ op' = Idle
                  /\ OpLocalsReset
                  /\ UNCHANGED disk
             ELSE IF NothingToCommit(changes.simpleChanges, picks.commits)
             THEN /\ disk' = cleanSequencerState(disk)
                  /\ result' = UserError("cherryPick", NothingMessage)
                  /\ op' = Idle
                  /\ OpLocalsReset
             ELSE /\ op' = [op EXCEPT !.pc = "finish"]
                  /\ errorMessage' = message
                  /\ UNCHANGED <<disk, memIndex, changes, picks, inflight,
                                 result>>
    /\ UNCHANGED <<head, metaCommits, metaDirty, urls, subs, targetCommit, storeVars, checkoutVars, queueVars,
                   snap>>

-----------------------------------------------------------------------------
(* finish, continue, abort *)

\* the author finish hands to createCommitOnHead: repo.defaultSignature()
FinishSignature(commit) == "default signature"

FinishCommitMutCleansFirst ==
    /\ op.pc = "finish"
    /\ disk' = cleanSequencerState(disk)
    /\ op' = [op EXCEPT !.pc = "finish clean"]
    /\ UNCHANGED <<repoVars, targetCommit, storeVars, checkoutVars, queueVars,
                   memIndex, changes, errorMessage, picks, inflight, result,
                   snap>>

\* finish, first half: repo.createCommitOnHead([], defaultSig,
\* commit.committer(), commit.message())
FinishCommit ==
    /\ op.pc = "finish"
    /\ metaCommits' = metaCommits @@
                  (NextCommitId :> [parent |-> head, tree |-> diskIndex,
                                    urls |-> urls,
                                    author |-> FinishSignature(targetCommit),
                                    committer |-> targetCommit.committer,
                                    message |-> targetCommit.message])
    /\ head' = NextCommitId
    /\ op' = [op EXCEPT !.pc = "finish clean"]
    /\ UNCHANGED <<disk, diskIndex, metaDirty, urls, subs, targetCommit, storeVars, checkoutVars, queueVars,
                   memIndex, changes, errorMessage, picks, inflight, result,
                   snap>>

FinishCleanMutKeepState ==
    /\ op.pc = "finish clean"
    /\ result' = Returned(op.name, head, errorMessage, picks.commits)
    /\ op' = Idle
    /\ OpLocalsReset
    /\ UNCHANGED <<disk, repoVars, targetCommit, storeVars, checkoutVars, queueVars, snap>>

\* finish, second half: cleanSequencerState, then the new commit's sha is
\* returned and becomes result.newMetaCommit
FinishClean ==
    /\ op.pc = "finish clean"
    /\ disk' = cleanSequencerState(disk)
    /\ result' = Returned(op.name, head, errorMessage, picks.commits)
    /\ op' = Idle
    /\ OpLocalsReset
    /\ UNCHANGED <<repoVars, targetCommit, storeVars, checkoutVars, queueVars, snap>>

ensureCherryInProgressMutNullOnly(seq) == seq = Null

\* ensureCherryInProgress(seq) throws
ensureCherryInProgress(seq) ==
    seq = Null \/ CHERRY_PICK # seq.type

ContinueCheckMutIgnoreConflicts(seq) ==
    IF ensureCherryInProgress(seq) THEN NoCherryMessage ELSE "ok"

\* which check of continue refuses the operation, if any
ContinueCheck(seq) ==
    IF ensureCherryInProgress(seq) THEN NoCherryMessage
    ELSE IF isConflicted THEN ResolveMessage
    ELSE "ok"

\* the open sub-repos a replay was left unfinished in
MidReplay == {p \in Paths : subs[p].open /\ subs[p].picking}

\* continue: the status with its sequencer state, the checks,
\* RebaseUtil.continueSubmodules, index.write(), and the choice between
\* returning the report, "Nothing to commit." and finish
Continue ==
    /\ op = Idle
    /\ LET seq == readSequencerState(disk) IN
       IF ContinueCheck(seq) # "ok"
       THEN /\ result' = UserError("continue", ContinueCheck(seq))
            /\ UNCHANGED <<disk, repoVars, memIndex, op, changes,
                           errorMessage, picks, inflight>>
       ELSE \E again \in SUBSET MidReplay :
            LET done == MidReplay \ again
                after == [p \in Paths |->
                            IF p \in done
                            THEN OpenSub(Rewritten(subs[p].head), "clean")
                            ELSE IF p \in again
                            THEN [subs[p] EXCEPT !.conflicted = TRUE,
                                                 !.dirty = "clean"]
                            ELSE subs[p]]
                staged == [p \in Paths |->
                             IF p \in MidReplay THEN SubEntry(after[p].head)
                             ELSE diskIndex[p]]
                message == ConflictedLines(Sorted(again))
                newCommits == [p \in done |-> <<after[p].head>>]
            IN /\ subs' = after
               /\ diskIndex' = staged
               /\ UNCHANGED <<head, metaCommits, metaDirty, urls>>
               /\ IF message # <<>>
                  THEN /\ result' = Returned("continue", 0, message, newCommits)
                       /\ UNCHANGED <<disk, memIndex, op, changes,
                                      errorMessage, picks, inflight>>
                  ELSE IF isIndexDeepClean /\ done = {}
                  THEN /\ disk' = cleanSequencerState(disk)
                       /\ result' = UserError("continue", NothingMessage)
                       /\ UNCHANGED <<memIndex, op, changes, errorMessage,
                                      picks, inflight>>
                  ELSE /\ op' = [name |-> "continue", pc |-> "finish"]
                       /\ memIndex' = staged
                       /\ picks' = [commits |-> newCommits, conflicts |-> <<>>]
                       /\ errorMessage' = message
                       /\ result' = NoResult
                       /\ UNCHANGED <<disk, changes, inflight>>
    /\ UNCHANGED <<targetCommit, storeVars, checkoutVars, queueVars, snap>>

\* the commit abort resets to: repo.getCommit(seq.originalHead.sha)
AbortTarget(seq) == IdOf(seq.originalHead.sha)

\* Reset.reset(repo, commit, type): HEAD, index and workdir of the meta-repo
\* and of its open sub-repos are set to the commit
Reset(commit) ==
    /\ head' = commit
    /\ diskIndex' = metaCommits[commit].tree
    /\ urls' = metaCommits[commit].urls
    /\ metaDirty' = "clean"
    /\ subs' = [p \in Paths |->
                  IF subs[p].open /\ IsSub(metaCommits[commit].tree[p])
                  THEN OpenSub(metaCommits[commit].tree[p].sha, "clean")
                  ELSE ClosedSub]
    /\ UNCHANGED metaCommits

AbortResetMutCleansFirst ==
    /\ op = Idle
    /\ LET seq == readSequencerState(disk) IN
       IF ensureCherryInProgress(seq)
       THEN /\ result' = UserError("abort", NoCherryMessage)
            /\ UNCHANGED <<disk, repoVars, op>>
       ELSE \/ /\ Reset(AbortTarget(seq))
               /\ disk' = cleanSequencerState(disk)
               /\ op' = [name |-> "abort", pc |-> "clean"]
               /\ result' = [kind |-> "pending", op |-> "abort",
                              after |-> result]
            \/ /\ disk' = cleanSequencerState(disk)
               /\ result' = Failed("abort")
               /\ UNCHANGED <<repoVars, op>>
    /\ UNCHANGED <<targetCommit, storeVars, checkoutVars, queueVars, memIndex, changes, errorMessage,
                   picks, inflight, snap>>

\* abort, first half: readSequencerState, ensureCherryInProgress, the reset;
\* a reset that throws ends abort there, with nothing reset
AbortReset ==
    /\ op = Idle
    /\ LET seq == readSequencerState(disk) IN
       IF ensureCherryInProgress(seq)
       THEN /\ result' = UserError("abort", NoCherryMessage)
            /\ UNCHANGED <<repoVars, op>>
       ELSE \/ /\ Reset(AbortTarget(seq))
               /\ op' = [name |-> "abort", pc |-> "clean"]
               /\ result' = [kind |-> "pending", op |-> "abort",
                              after |-> result]
            \/ /\ result' = Failed("abort")
               /\ UNCHANGED <<repoVars, op>>
    /\ UNCHANGED <<disk, targetCommit, storeVars, checkoutVars, queueVars, memIndex, changes, errorMessage,
                   picks, inflight, snap>>

\* abort is interrupted between the reset and cleanSequencerState
AbortInterrupted ==
    /\ op = [name |-> "abort", pc |-> "clean"]
    /\ result' = [kind |-> "interrupted", op |-> "abort"]
    /\ op' = Idle
    /\ UNCHANGED <<disk, repoVars, targetCommit, storeVars, checkoutVars, queueVars, memIndex, changes,
                   errorMessage, picks, inflight, snap>>

AbortCleanMutKeepState ==
    /\ op = [name |-> "abort", pc |-> "clean"]
    /\ result' = [kind |-> "returned", op |-> "abort", after |-> result.after]
    /\ op' = Idle
    /\ UNCHANGED <<disk, repoVars, targetCommit, storeVars, checkoutVars, queueVars, memIndex, changes,
                   errorMessage, picks, inflight, snap>>

\* abort, second half: cleanSequencerState
AbortClean ==
    /\ op = [name |-> "abort", pc |-> "clean"]
    /\ disk' = cleanSequencerState(disk)
    /\ result' = [kind |-> "returned", op |-> "abort", after |-> result.after]
    /\ op' = Idle
    /\ UNCHANGED <<repoVars, targetCommit, storeVars, checkoutVars, queueVars, memIndex, changes,
                   errorMessage, picks, inflight, snap>>

-----------------------------------------------------------------------------
(* The user, between operations *)

\* the entries a conflict can be resolved to
Resolutions(conflict) ==
    {Absent}
    \cup (IF conflict.our.filemode = FILEMODE_COMMIT
          THEN {SubEntry(conflict.our.sha)} ELSE {})
    \cup (IF conflict.their.filemode = FILEMODE_COMMIT
          THEN {SubEntry(conflict.their.sha)} ELSE {})

\* the user resolves a conflicted path of the meta-repo and stages it
UserResolveMeta(p) ==
    /\ op = Idle
    /\ diskIndex[p].kind = "conflict"
    /\ \E entry \in Resolutions(diskIndex[p]) :
         diskIndex' = [diskIndex EXCEPT ![p] = entry]
    /\ UNCHANGED <<disk, head, metaCommits, metaDirty, urls, subs, targetCommit,
                   storeVars, checkoutVars, queueVars, opVars>>

\* the user resolves the conflict a replay stopped at and stages it
UserResolveSub(p) ==
    /\ op = Idle
    /\ subs[p].open /\ subs[p].conflicted
    /\ subs' = [subs EXCEPT ![p].conflicted = FALSE, ![p].dirty = "staged"]
    /\ UNCHANGED <<disk, head, metaCommits, diskIndex, metaDirty, urls, targetCommit,
                   storeVars, checkoutVars, queueVars, opVars>>

Next ==
    \/ CherryPickBegin
    \/ CherryPickWriteSeq
    \/ CherryPickChangeSubmodules
    \/ CherryPickWriteConflicts
    \/ \E name \in Paths : PickSub(name)
    \/ CherryPickCollect
    \/ FinishCommit
    \/ FinishClean
    \/ Continue
    \/ AbortReset
    \/ AbortInterrupted
    \/ AbortClean
    \/ \E p \in Paths : UserResolveMeta(p)
    \/ \E p \in Paths : UserResolveSub(p)

vars == <<disk, storeVars, checkoutVars, protoVars, queueVars>>

Spec == Init /\ [][Next]_vars

-----------------------------------------------------------------------------
(* Properties of the cherry-pick protocol *)

\* what readSequencerState makes of the directory right now
OnDisk == readSequencerState(disk)

\* the record cherryPick is to leave for the running operation
ExpectedRecord ==
    [kind |-> "state", type |-> <<"CHERRY_PICK">>,
     originalHead |-> [sha |-> ToStr(snap.head), ref |-> NoRef],
     target |-> [sha |-> ToStr(targetCommit.id), ref |-> NoRef],
     commits |-> <<ToStr(targetCommit.id)>>,
     currentCommit |-> 0]

\* the index object, the index on disk, the meta tree or a sub-repo differs
\* from what cherryPick started on
Mutated ==
    \/ memIndex # snap.index
    \/ diskIndex # snap.index
    \/ subs # snap.subs
    \/ urls # snap.urls
    \/ head # snap.head

\* C1: while cherryPick runs, a mutation of the meta index, the meta tree or
\* a sub-repo has happened only if the sequencer state {CHERRY_PICK,
\* originalHead = HEAD at the start, target = the picked commit,
\* commits = [target], currentCommit = 0} is on disk.
C1_StateWrittenBeforeMutation ==
    (op.name = "cherryPick" /\ Mutated) => OnDisk = ExpectedRecord

C1_Witness ==
    /\ op = [name |-> "cherryPick", pc |-> "conflicts"]
    /\ subs # snap.subs
    /\ memIndex # snap.index
    /\ OnDisk = ExpectedRecord

\* the last operation was cherryPick or continue and it returned normally
PickReturned ==
    /\ op = Idle
    /\ result.kind = "returned"
    /\ result.op \in {"cherryPick", "continue"}

\* C2: when cherryPick or continue ends with a non-empty report, no
\* meta-repo commit was created (HEAD is where it was, newMetaCommit is
\* null) and the sequencer state of the cherry-pick is still on disk.
C2_ReportMeansNoCommit ==
    (PickReturned /\ result.errorMessage # <<>>) =>
        /\ result.newMetaCommit = 0
        /\ head = snap.head
        /\ DOMAIN metaCommits = snap.objects
        /\ OnDisk = ExpectedRecord

C2_Witness ==
    /\ PickReturned
    /\ result.op = "continue"
    /\ Len(result.errorMessage) = 1
    /\ OnDisk = ExpectedRecord
    /\ head = snap.head

\* cherryPick was refused by one of its sanity checks
Refused ==
    /\ result.kind = "UserError"
    /\ result.msg \in {NotReadyMessage, DirtyMessage, UrlMessage}

\* every change of the target is an update of a sub-repo pointer whose old
\* sha is the one HEAD had when cherryPick started
FastForwardOnly ==
    /\ snap.head # 0
    /\ DOMAIN targetCommit.changes # {}
    /\ \A p \in DOMAIN targetCommit.changes :
         LET entry  == metaCommits[snap.head].tree[p]
             change == targetCommit.changes[p]
         IN /\ entry.kind = "entry" /\ entry.filemode = "commit"
            /\ change.oldSha # 0 /\ change.newSha # 0
            /\ entry.sha = change.oldSha

\* C3: when cherryPick or continue returns a non-null newMetaCommit, no
\* sequencer state is on disk and HEAD is the new commit; and a cherryPick
\* that got past its checks with nothing but fast-forward pointer updates
\* ends with a new meta-commit and no sequencer state.
C3_CommitMeansNoState ==
    /\ (PickReturned /\ result.newMetaCommit # 0) =>
          /\ OnDisk = Null
          /\ head = result.newMetaCommit
          /\ metaCommits[head].parent = snap.head
    /\ (op = Idle /\ result.op = "cherryPick" /\ ~Refused /\ FastForwardOnly) =>
          /\ result.kind = "returned"
          /\ result.newMetaCommit # 0
          /\ OnDisk = Null

C3_Witness ==
    /\ PickReturned
    /\ result.op = "cherryPick"
    /\ FastForwardOnly
    /\ result.newMetaCommit = head
    /\ head # snap.head
    /\ OnDisk = Null

\* C4: when abort has returned, HEAD, index and workdir of the meta-repo
\* are what they were when the cherry-pick started, i.e. the commit recorded
\* as originalHead, and readSequencerState returns null.
C4_AbortRestores ==
    (op = Idle /\ result.kind = "returned" /\ result.op = "abort") =>
        /\ head = snap.head
        /\ diskIndex = snap.index
        /\ diskIndex = metaCommits[snap.head].tree
        /\ metaDirty = snap.metaDirty
        /\ urls = snap.urls
        /\ OnDisk = Null

C4_Witness ==
    /\ op = Idle
    /\ result.kind = "returned" /\ result.op = "abort"
    /\ result.after.kind = "returned"
    /\ result.after.op = "cherryPick"
    /\ result.after.errorMessage # <<>>
    /\ head = snap.head
    /\ diskIndex = snap.index
    /\ OnDisk = Null

\* a step in which the named operation is called
Called(name) ==
    /\ op = Idle
    /\ \/ op'.name = name
       \/ result' # result /\ result'.op = name

\* staged or workdir changes in the meta-repo or in an open sub-repo
TreeDirty ==
    \/ metaDirty # "clean"
    \/ \E p \in Paths : subs[p].open /\ subs[p].dirty # "clean"

\* the target changes the URL of a sub-repo its parent has as well
UrlChanged ==
    \E p \in DOMAIN targetCommit.parentUrls \cap
             DOMAIN targetCommit.commitUrls :
        targetCommit.parentUrls[p] # targetCommit.commitUrls[p]

C6_NoEmptyCommit ==
    op = [name |-> "cherryPick", pc |-> "finish clean"] =>
        metaCommits[head].tree # metaCommits[metaCommits[head].parent].tree

\* C7: continue or abort called with no sequencer state on disk, or with one
\* whose type is not CHERRY_PICK, raises "No cherry-pick in progress." and
\* leaves the repository and the sequencer directory as they are.
C7_NoCherryPickInProgress ==
    [][((Called("continue") \/ Called("abort")) /\
        (OnDisk = Null \/ OnDisk.type # <<"CHERRY_PICK">>)) =>
          /\ result'.kind = "UserError"
          /\ result'.msg = NoCherryMessage
          /\ op' = Idle
          /\ UNCHANGED <<disk, repoVars>>]_vars

C7_Witness ==
    /\ result = UserError("abort", NoCherryMessage)
    /\ OnDisk # Null
    /\ OnDisk.type = <<"MERGE">>

\* C8: continue called while the index holds conflict markers raises the
\* UserError that asks to resolve them; no commit is created, no sub-repo
\* is touched and the sequencer state stays.
C8_ContinueNeedsResolution ==
    [][(Called("continue") /\ OnDisk = ExpectedRecord /\
        \E p \in Paths : diskIndex[p].kind = "conflict") =>
          /\ result' = UserError("continue", ResolveMessage)
          /\ op' = Idle
          /\ UNCHANGED <<disk, repoVars>>]_vars

C8_Witness ==
    /\ result = UserError("continue", ResolveMessage)
    /\ \E p \in Paths : diskIndex[p].kind = "conflict"
    /\ OnDisk = ExpectedRecord

-----------------------------------------------------------------------------
(* The store on its own: writes, removals, reads and a corrupted record *)

ShaStrings == {<<"a">>, <<"b">>}
RefStrings == {<<"r">>}

CommitAndRefs ==
    {CommitAndRef(s, r) : s \in ShaStrings,
                          r \in {NoRef} \cup {Ref(x) : x \in RefStrings}}

CommitLists == UNION {[1..n -> ShaStrings] : n \in 1..MaxCommits}

\* every state the constructor accepts, over the strings above
SeqStates ==
    {SequencerState(t, o, g, c, i) :
        t \in TYPE,
        o \in {x \in CommitAndRefs : x.sha = <<"a">>},
        g \in {x \in CommitAndRefs : x.sha = <<"b">>},
        c \in CommitLists,
        i \in 0..(MaxCommits - 1)} \ {Raise}

\* symbols a corrupted record may contain
TamperSymbols == {"a", "1", "-", NL, "MERGE", "toString"}

RemoveAt(s, i) == SubSeq(s, 1, i - 1) \o SubSeq(s, i + 1, Len(s))
InsertAt(s, i, c) == SubSeq(s, 1, i - 1) \o <<c>> \o SubSeq(s, i, Len(s))

\* the contents one edit (a symbol removed, inserted or replaced) away
OneEdit(s) ==
    {RemoveAt(s, i) : i \in 1..Len(s)}
    \cup {InsertAt(s, i, c) : i \in 1..(Len(s) + 1), c \in TamperSymbols}
    \cup {[s EXCEPT ![i] = c] : i \in 1..Len(s), c \in TamperSymbols}

\* the repository itself is at rest while the store is exercised
RepoParked ==
    /\ head = 1
    /\ metaCommits = (1 :> [parent |-> 0, tree |-> [p \in Paths |-> Absent],
                        urls |-> [p \in Paths |-> "none"],
                        author |-> "head author",
                        committer |-> "head committer",
                        message |-> "head message"])
    /\ diskIndex = [p \in Paths |-> Absent]
    /\ urls = [p \in Paths |-> "none"]
    /\ subs = [p \in Paths |-> ClosedSub]
    /\ metaDirty = "clean"
    /\ targetCommit = TargetCommit([p \in Paths |-> Absent], <<>>, {})
    /\ op = Idle
    /\ memIndex = Null
    /\ changes = NoChanges
    /\ errorMessage = <<>>
    /\ picks = NoPicks
    /\ inflight = {}
    /\ result = NoResult
    /\ snap = NoSnap

StoreInit ==
    /\ CheckoutParked
    /\ disk = NoDir
    /\ StoreParked
    /\ QueueParked
    /\ RepoParked

\* writeSequencerState, one step at a time
StoreWriteStep ==
    /\ \E s \in (IF wpc = 0 THEN SeqStates ELSE {pending}) :
         LET k == IF wpc = 0 THEN 1 ELSE wpc IN
         /\ disk' = WriteStep(disk, s, k)
         /\ pending' = s
         /\ prior' = IF wpc # 0 THEN prior
                      ELSE IF hist = "written" THEN pending ELSE Null
         /\ wpc' = IF k = NumWriteSteps THEN 0 ELSE k + 1
         /\ hist' = IF k = NumWriteSteps THEN "written" ELSE "writing"
    /\ readResult' = [kind |-> "none"]
    /\ UNCHANGED <<rpc, rbuf, protoVars, queueVars, checkoutVars>>

StoreClean ==
    /\ wpc = 0
    /\ disk' = cleanSequencerState(disk)
    /\ hist' = "clean"
    /\ prior' = Null
    /\ readResult' = [kind |-> "none"]
    /\ UNCHANGED <<pending, wpc, rpc, rbuf, protoVars, queueVars, checkoutVars>>

StoreRead ==
    /\ readResult' = readSequencerState(disk)
    /\ UNCHANGED <<disk, pending, prior, wpc, hist, rpc, rbuf, protoVars,
                   queueVars, checkoutVars>>

\* one record of a completely written directory is corrupted or lost
StoreTamper ==
    /\ hist = "written"
    /\ \E f \in FileNames :
         \/ disk' = [disk EXCEPT !.files[f] = NoFile]
         \/ \E c \in OneEdit(disk.files[f].data) : disk' = WriteFile(disk, f, c)
    /\ hist' = "tampered"
    /\ prior' = Null
    /\ readResult' = [kind |-> "none"]
    /\ UNCHANGED <<pending, wpc, rpc, rbuf, protoVars, queueVars, checkoutVars>>

StoreNext == StoreWriteStep \/ StoreClean \/ StoreRead \/ StoreTamper

SpecStore == StoreInit /\ [][StoreNext]_vars

-----------------------------------------------------------------------------
(* A readSequencerState running while a writeSequencerState runs: each
   takes one step per yield, in any interleaving *)

\* the states written and found on disk in the interleaved runs
RaceStates ==
    {s \in SeqStates : /\ s.type \in {<<"CHERRY_PICK">>, <<"MERGE">>}
                       /\ s.target.ref = NoRef
                       /\ s.commits[1] = <<"a">>}

\* the files in the order in which readSequencerState reads them
ReadOrder == <<TYPE_FILE, ORIGINAL_HEAD_FILE, TARGET_FILE, COMMITS_FILE,
               CURRENT_COMMIT_FILE>>

\* the directory as the running read has seen it, file by file
ReadView(buf) == [exists |-> TRUE, files |-> buf]

\* readSequencerState goes on after its k-th read instead of returning null
ReadGoesOn(buf, k) ==
    CASE k = 1 -> LET typeContent == readFile(ReadView(buf), TYPE_FILE)
                  IN /\ typeContent # Null
                     /\ Len(Split(typeContent.val)) = 2
                     /\ HasProperty(Split(typeContent.val)[1])
      [] k = 2 -> readCommitAndRef(ReadView(buf), ORIGINAL_HEAD_FILE) # Null
      [] k = 3 -> readCommitAndRef(ReadView(buf), TARGET_FILE) # Null
      [] k = 4 -> readCommits(ReadView(buf)) # Null
      [] k = 5 -> FALSE

RaceInit ==
    /\ CheckoutParked
    /\ \E before \in {Null} \cup RaceStates :
         /\ prior = before
         /\ disk = IF before = Null THEN NoDir
                   ELSE writeSequencerState(NoDir, before)
         /\ hist = IF before = Null THEN "clean" ELSE "written"
    /\ pending = Null
    /\ wpc = 0
    /\ readResult = [kind |-> "none"]
    /\ rpc = 0
    /\ rbuf = [f \in FileNames |-> NoFile]
    /\ QueueParked
    /\ RepoParked

\* the one writeSequencerState of the run, one step at a time
RaceWriteStep ==
    /\ wpc # 0 \/ pending = Null
    /\ \E s \in (IF wpc = 0 THEN RaceStates ELSE {pending}) :
         LET k == IF wpc = 0 THEN 1 ELSE wpc IN
         /\ disk' = WriteStep(disk, s, k)
         /\ pending' = s
         /\ wpc' = IF k = NumWriteSteps THEN 0 ELSE k + 1
         /\ hist' = IF k = NumWriteSteps THEN "written" ELSE "writing"
    /\ UNCHANGED <<prior, readResult, rpc, rbuf, protoVars, queueVars, checkoutVars>>

\* readSequencerState, one file read at a time: the read of the next file,
\* the test on what it got, and the return when that fails or the last
\* file has been read
RaceReadStep ==
    LET k    == rpc + 1
        f    == ReadOrder[k]
        got  == IF disk.exists THEN disk.files[f] ELSE NoFile
        sofar == IF rpc = 0 THEN [g \in FileNames |-> NoFile] ELSE rbuf
        buf  == [sofar EXCEPT ![f] = got]
    IN /\ rbuf' = buf
       /\ IF ReadGoesOn(buf, k)
          THEN /\ rpc' = k
               /\ readResult' = [kind |-> "none"]
          ELSE /\ rpc' = 0
               /\ readResult' = readSequencerState(ReadView(buf))
       /\ UNCHANGED <<disk, pending, prior, wpc, hist, protoVars, queueVars, checkoutVars>>

RaceNext == RaceWriteStep \/ RaceReadStep

SpecRace == RaceInit /\ [][RaceNext]_vars

-----------------------------------------------------------------------------
\* C9: after a completed writeSequencerState(dir, s), readSequencerState(dir)
\* returns a value equal to s, for every type, ref variant, commit list and
\* current commit.
C9_RoundTrip ==
    hist = "written" => readSequencerState(disk) = pending

C9_Witness ==
    /\ hist = "written"
    /\ readResult = pending
    /\ pending.originalHead.ref # NoRef
    /\ pending.target.ref = NoRef
    /\ Len(pending.commits) = 2
    /\ pending.currentCommit = 1

-----------------------------------------------------------------------------
\* the record consists of one or two lines, each ended by a newline
OneOrTwoTerminatedLines(s) ==
    /\ s # <<>>
    /\ s[Len(s)] = NL
    /\ Len(Split(s)) - 1 \in {1, 2}

\* the directory is absent or one of its records is malformed
MalformedDirectory(d) ==
    \/ ~d.exists
    \/ \E f \in FileNames : ~d.files[f].present
    \/ d.files[TYPE_FILE].data \notin {t \o <<NL>> : t \in TYPE}
    \/ ~OneOrTwoTerminatedLines(d.files[ORIGINAL_HEAD_FILE].data)
    \/ ~OneOrTwoTerminatedLines(d.files[TARGET_FILE].data)
    \/ NonEmptyLines(Split(d.files[COMMITS_FILE].data)) = <<>>

\* C10: readSequencerState returns null, and raises nothing, when the
\* directory is absent, a record file is missing, the TYPE record is not
\* exactly one of the three types, ORIGINAL_HEAD or TARGET is not one or two
\* newline-terminated lines, or COMMITS has no non-empty line.
C10_MalformedReadsNull ==
    MalformedDirectory(disk) => readSequencerState(disk) = Null

-----------------------------------------------------------------------------
(* The work queue: doInParallel and doInBatches *)

\* the longest queue handed to the work queue
MaxQueue == 4

\* the ceiling on parallel work; 100 in the source, scaled down here
MAX_WORK == 2

\* the most batches asked of doInBatches
MaxBatches == 3

Items == {"x", "y"}

Queues == UNION {[1..n -> Items] : n \in 0..MaxQueue}

WorkerIdsMutOneMore == 1..(MAX_WORK + 1)

\* for (let i = 0; i < MAX_WORK; ++i) { work.push(doWork()); }
WorkerIds == 1..MAX_WORK

\* what the promise of getWork(item, index) resolves to
GetWork(item, index) == [kind |-> "value", item |-> item, index |-> index]

\* a slot of new Array(total) nothing was assigned to
EmptySlot == [kind |-> "empty"]

Unstarted == [pc |-> "unstarted", current |-> 0]
Finished  == [pc |-> "done", current |-> 0]
Rejected  == [pc |-> "failed", current |-> 0]
Waiting(current) == [pc |-> "working", current |-> current]

\* positions are counted from 0, as in the source
Positions(q) == 0..(Len(q) - 1)

QueueInit ==
    /\ CheckoutParked
    /\ disk = NoDir
    /\ StoreParked
    /\ RepoParked
    /\ queue \in Queues
    /\ failing \in {{}} \cup {{i} : i \in Positions(queue)}
    /\ next = 0
    /\ resultArray = <<>>
    /\ work = <<>>
    /\ calls = <<>>
    /\ settled = <<>>
    /\ promise = "none"
    /\ batched = [kind |-> "none"]

RunToYieldMutStopsEarly(cursor, log) ==
    IF cursor + 1 < Len(queue)
    THEN [worker |-> Waiting(cursor),
          next   |-> cursor + 1,
          calls  |-> Append(log, <<queue[cursor + 1], cursor>>)]
    ELSE [worker |-> Finished, next |-> cursor, calls |-> log]

RunToYieldMutNoAdvance(cursor, log) ==
    IF cursor # Len(queue)
    THEN [worker |-> Waiting(cursor),
          next   |-> cursor,
          calls  |-> Append(log, <<queue[cursor + 1], cursor>>)]
    ELSE [worker |-> Finished, next |-> cursor, calls |-> log]

\* doWork from the test of its loop up to its next yield, given the cursor
\* and the calls so far: the worker, the cursor and the calls afterwards
RunToYield(cursor, log) ==
    IF cursor # Len(queue)
    THEN [worker |-> Waiting(cursor),
          next   |-> cursor + 1,
          calls  |-> Append(log, <<queue[cursor + 1], cursor>>)]
    ELSE [worker |-> Finished, next |-> cursor, calls |-> log]

\* the workers, cursor and calls after the first n calls of doWork()
RECURSIVE Spawn(_)
Spawn(n) ==
    IF n = 0
    THEN [work |-> <<>>, next |-> 0, calls |-> <<>>]
    ELSE LET before == Spawn(n - 1)
             step   == RunToYield(before.next, before.calls)
         IN [work  |-> Append(before.work, step.worker),
             next  |-> step.next,
             calls |-> step.calls]

\* doInParallel up to `yield work`: the result array is allocated and every
\* worker runs to its first yield, one after the other
DoInParallelStart ==
    /\ promise = "none"
    /\ batched.kind = "none"
    /\ LET spawned == Spawn(Cardinality(WorkerIds)) IN
       /\ work' = spawned.work
       /\ next' = spawned.next
       /\ calls' = spawned.calls
    /\ resultArray' = [i \in Positions(queue) |-> EmptySlot]
    /\ settled' = <<>>
    /\ promise' = "pending"
    /\ UNCHANGED <<disk, storeVars, checkoutVars, protoVars, queue, failing, batched>>

StoreResultMutPush(array, current, currentResult) ==
    LET free == {i \in DOMAIN array : array[i] = EmptySlot}
        slot == CHOOSE i \in free : \A j \in free : i <= j
    IN [array EXCEPT ![slot] = currentResult]

\* result[current] = currentResult
StoreResult(array, current, currentResult) ==
    [array EXCEPT ![current] = currentResult]

\* the work of worker w resolves: the result is stored and the loop of
\* doWork goes round once more
WorkResolves(w) ==
    /\ promise # "none"
    /\ w \in DOMAIN work
    /\ work[w].pc = "working"
    /\ work[w].current \notin failing
    /\ LET current == work[w].current
           step    == RunToYield(next, calls)
       IN /\ resultArray' = StoreResult(resultArray, current,
                                         GetWork(queue[current + 1], current))
          /\ settled' = Append(settled, current)
          /\ work' = [work EXCEPT ![w] = step.worker]
          /\ next' = step.next
          /\ calls' = step.calls
    /\ UNCHANGED <<disk, storeVars, checkoutVars, protoVars, queue, failing, promise, batched>>

\* the work of worker w rejects: doWork throws, and with it the promise of
\* `yield work`, unless that has been rejected before
WorkRejects(w) ==
    /\ promise # "none"
    /\ w \in DOMAIN work
    /\ work[w].pc = "working"
    /\ work[w].current \in failing
    /\ settled' = Append(settled, work[w].current)
    /\ work' = [work EXCEPT ![w] = Rejected]
    /\ promise' = IF promise = "pending" THEN "rejected" ELSE promise
    /\ UNCHANGED <<disk, storeVars, checkoutVars, protoVars, queue, failing, next,
                   resultArray, calls, batched>>

\* every worker has returned: `yield work` resolves and doInParallel
\* returns the result array
DoInParallelReturn ==
    /\ promise = "pending"
    /\ \A w \in DOMAIN work : work[w].pc = "done"
    /\ promise' = "resolved"
    /\ UNCHANGED <<disk, storeVars, checkoutVars, protoVars, queue, failing, next,
                   resultArray, work, calls, settled, batched>>

\* Math.ceil(n / d) for a non-negative n and a positive d
Ceil(n, d) == (n + d - 1) \div d

SpliceAllMutOnce(queueCopy, batchSize) ==
    IF Len(queueCopy) = 0 THEN <<>>
    ELSE LET taken == IF batchSize < Len(queueCopy) THEN batchSize
                      ELSE Len(queueCopy)
         IN <<SubSeq(queueCopy, 1, taken)>>

\* queueCopy.splice(0, batchSize), again and again until nothing is left
RECURSIVE SpliceAll(_, _)
SpliceAll(queueCopy, batchSize) ==
    IF Len(queueCopy) = 0 THEN <<>>
    ELSE LET taken == IF batchSize < Len(queueCopy) THEN batchSize
                      ELSE Len(queueCopy)
         IN <<SubSeq(queueCopy, 1, taken)>> \o
            SpliceAll(SubSeq(queueCopy, taken + 1, Len(queueCopy)), batchSize)

\* what the promise of getWork(values, index) resolves to: one result for
\* each value of the batch, in order
GetBatchWork(values, index) ==
    [j \in 1..Len(values) |->
        [kind |-> "value", item |-> values[j], batch |-> index, offset |-> j]]

\* batchedResults.reduce((acc, next) => acc.concat(next), [])
RECURSIVE Concat(_)
Concat(arrays) ==
    IF Len(arrays) = 0 THEN <<>>
    ELSE Head(arrays) \o Concat(Tail(arrays))

doInBatches(q, batches) ==
    LET batchSize      == Ceil(Len(q), batches)
        batchedQueue   == SpliceAll(q, batchSize)
        batchedResults == [k \in 1..Len(batchedQueue) |->
                              GetBatchWork(batchedQueue[k], k - 1)]
    IN [kind |-> "returned", batches |-> batches,
        batchedQueue |-> batchedQueue,
        getWorkCalls |-> [k \in 1..Len(batchedQueue) |->
                             <<batchedQueue[k], k - 1>>],
        result |-> Concat(batchedResults)]

\* a call of doInBatches(queue, batches, getWork)
DoInBatches ==
    /\ promise = "none"
    /\ batched.kind = "none"
    /\ \E batches \in 1..MaxBatches : batched' = doInBatches(queue, batches)
    /\ UNCHANGED <<disk, storeVars, checkoutVars, protoVars, queue, failing, next,
                   resultArray, work, calls, settled, promise>>

QueueNext ==
    \/ DoInParallelStart
    \/ \E w \in DOMAIN work : WorkResolves(w)
    \/ \E w \in DOMAIN work : WorkRejects(w)
    \/ DoInParallelReturn
    \/ DoInBatches

SpecQueue == QueueInit /\ [][QueueNext]_vars

\* the work queue when every promise that can settle does settle: a work
\* promise that is not to reject resolves, one that is to reject rejects, and
\* `yield work` resumes doInParallel once every worker has returned
QueueFairness ==
    /\ \A w \in WorkerIds : WF_vars(WorkResolves(w))
    /\ \A w \in WorkerIds : WF_vars(WorkRejects(w))
    /\ WF_vars(DoInParallelReturn)

SpecQueueLive == QueueInit /\ [][QueueNext]_vars /\ QueueFairness

-----------------------------------------------------------------------------
(* checkoutCommit *)

\* a repository as checkoutCommit finds it: HEAD and working tree on commit
\* 1, with or without local changes that stand in the way of the checkout
StartingRepo(blocked) == [head |-> 1, workdir |-> 1, blocked |-> blocked]

\* the sub-repos of the commit to check out, each with the sha it records
ShasOfCommit == UNION {[names -> {1, 2}] : names \in SUBSET Paths}

CheckoutInit ==
    /\ disk = NoDir
    /\ StoreParked
    /\ RepoParked
    /\ QueueParked
    /\ openSubs \in SUBSET Paths
    /\ shas \in ShasOfCommit
    /\ force \in BOOLEAN
    /\ \E blocking \in SUBSET ({"meta"} \cup openSubs) :
          checkoutRepos = [r \in Repos |-> StartingRepo(r \in blocking)]
    /\ errors = <<>>
    /\ cache = <<>>
    /\ pendingSubs = {}
    /\ cpc = "cache"
    /\ thrown = NotThrown

\* "Load repo/commit cache": for every open sub-repo, getRepo, fetchSha of
\* shas[name] and repo.getCommit of it.  A fetch may fail; for an open
\* sub-repo that is not in the commit shas[name] is undefined, and the
\* lookup of it fails or yields nothing that is used later.
CheckoutLoadCache ==
    /\ cpc = "cache"
    /\ \/ /\ cache' = [name \in openSubs |->
                         [repo |-> name,
                          commit |-> IF name \in DOMAIN shas THEN shas[name]
                                     ELSE 0]]
          /\ cpc' = IF force THEN "checkout meta" ELSE "dry meta"
          /\ UNCHANGED thrown
       \/ /\ openSubs # {}
          /\ thrown' = [kind |-> "error"]
          /\ cpc' = "done"
          /\ UNCHANGED cache
    /\ UNCHANGED <<disk, storeVars, protoVars, queueVars, checkoutRepos,
                   openSubs, shas, force, errors, pendingSubs>>

\* dryRun(repo, commit): null, or the message of the failed
\* Checkout.tree with STRATEGY.NONE
dryRun(repo) ==
    IF checkoutRepos[repo].blocked
    THEN [kind |-> "message", text |-> "conflicts prevent checkout"]
    ELSE Null

\* `Unable to check out meta-repo: ${metaError}.` and
\* `Unable to checkout submodule ${name}: ${error}.`
UnableToCheckOut(repo, error) == [repo |-> repo, error |-> error]

\* the open sub-repos the callbacks do not return early for
AliveOnCommit == {name \in openSubs : name \in DOMAIN shas}

\* "Check meta", and the start of the dry runs of the sub-repos
CheckoutDryRunMeta ==
    /\ cpc = "dry meta"
    /\ errors' = IF dryRun("meta") # Null
                 THEN Append(errors, UnableToCheckOut("meta", dryRun("meta")))
                 ELSE errors
    /\ pendingSubs' = AliveOnCommit
    /\ cpc' = "dry subs"
    /\ UNCHANGED <<disk, storeVars, protoVars, queueVars, checkoutRepos,
                   openSubs, shas, force, cache, thrown>>

\* the dry run of one sub-repo completes
CheckoutDryRunSub(name) ==
    /\ cpc = "dry subs"
    /\ name \in pendingSubs
    /\ errors' = IF dryRun(cache[name].repo) # Null
                 THEN Append(errors,
                             UnableToCheckOut(name, dryRun(cache[name].repo)))
                 ELSE errors
    /\ pendingSubs' = pendingSubs \ {name}
    /\ UNCHANGED <<disk, storeVars, protoVars, queueVars, checkoutRepos,
                   openSubs, shas, force, cache, cpc, thrown>>

DryRunsFailedMutNever(messages) == FALSE

\* 0 !== errors.length
DryRunsFailed(messages) == 0 # Len(messages)

\* "Throw an error if any dry-runs failed."
CheckoutAfterDryRuns ==
    /\ cpc = "dry subs"
    /\ pendingSubs = {}
    /\ IF DryRunsFailed(errors)
       THEN /\ thrown' = [kind |-> "UserError", lines |-> errors]
            /\ cpc' = "done"
       ELSE /\ cpc' = "checkout meta"
            /\ UNCHANGED thrown
    /\ UNCHANGED <<disk, storeVars, protoVars, queueVars, checkoutRepos,
                   openSubs, shas, force, errors, cache, pendingSubs>>

\* Checkout.tree with STRATEGY.FORCE or STRATEGY.SAFE succeeds
CanCheckout(repo) == force \/ ~checkoutRepos[repo].blocked

\* doCheckout(repo, commit): Checkout.tree, then repo.setHeadDetached
doCheckout(repos, repo, commit) ==
    [repos EXCEPT ![repo] = [head |-> commit, workdir |-> commit,
                             blocked |-> FALSE]]

\* "Now do the actual checkouts.": the meta-repo first
CheckoutMeta ==
    /\ cpc = "checkout meta"
    /\ IF CanCheckout("meta")
       THEN /\ checkoutRepos' = doCheckout(checkoutRepos, "meta", 2)
            /\ pendingSubs' = AliveOnCommit
            /\ cpc' = "checkout subs"
            /\ UNCHANGED thrown
       ELSE /\ thrown' = [kind |-> "error"]
            /\ cpc' = "done"
            /\ UNCHANGED <<checkoutRepos, pendingSubs>>
    /\ UNCHANGED <<disk, storeVars, protoVars, queueVars, openSubs, shas,
                   force, errors, cache>>

\* the checkout of one sub-repo completes; a failed one rejects
\* checkoutCommit while the others go on
CheckoutSub(name) ==
    /\ cpc \in {"checkout subs", "done"}
    /\ name \in pendingSubs
    /\ pendingSubs' = pendingSubs \ {name}
    /\ IF CanCheckout(cache[name].repo)
       THEN /\ checkoutRepos' = doCheckout(checkoutRepos, cache[name].repo,
                                           cache[name].commit)
            /\ UNCHANGED <<thrown, cpc>>
       ELSE /\ thrown' = IF thrown = NotThrown THEN [kind |-> "error"]
                         ELSE thrown
            /\ cpc' = "done"
            /\ UNCHANGED checkoutRepos
    /\ UNCHANGED <<disk, storeVars, protoVars, queueVars, openSubs, shas,
                   force, errors, cache>>

\* every checkout has completed: checkoutCommit returns
CheckoutReturn ==
    /\ cpc = "checkout subs"
    /\ pendingSubs = {}
    /\ thrown' = [kind |-> "returned"]
    /\ cpc' = "done"
    /\ UNCHANGED <<disk, storeVars, protoVars, queueVars, checkoutRepos,
                   openSubs, shas, force, errors, cache, pendingSubs>>

CheckoutNext ==
    \/ CheckoutLoadCache
    \/ CheckoutDryRunMeta
    \/ \E name \in Paths : CheckoutDryRunSub(name)
    \/ CheckoutAfterDryRuns
    \/ CheckoutMeta
    \/ \E name \in Paths : CheckoutSub(name)
    \/ CheckoutReturn

SpecCheckout == CheckoutInit /\ [][CheckoutNext]_vars

-----------------------------------------------------------------------------
\* the other four records parse, and the number the CURRENT_COMMIT record
\* starts with is missing, negative or not below the number of commits
CurrentCommitOutOfRange(d) ==
    /\ d.exists
    /\ d.files[CURRENT_COMMIT_FILE].present
    /\ readCommits(d) # Null
    /\ LET index == ParseInt(Split(d.files[CURRENT_COMMIT_FILE].data)[1])
           numCommits == Len(readCommits(d).val)
       IN index.nan \/ index.val < 0 \/ index.val >= numCommits

\* C11: readSequencerState returns null, and raises nothing, whenever the
\* CURRENT_COMMIT record is not an integer i with 0 <= i < commits.length.
C11_OutOfRangeReadsNull ==
    CurrentCommitOutOfRange(disk) => readSequencerState(disk) = Null

-----------------------------------------------------------------------------
\* C12: cleanSequencerState succeeds on every directory, absent or not, and
\* leaves it absent; readSequencerState then returns null; a second call
\* changes nothing.
C12_CleanIdempotent ==
    LET once == cleanSequencerState(disk) IN
    /\ ~once.exists
    /\ readSequencerState(once) = Null
    /\ cleanSequencerState(once) = once
    /\ cleanSequencerState(NoDir) = NoDir
    /\ hist = "clean" => (disk = NoDir /\ readSequencerState(disk) = Null)

C12_Witness ==
    /\ hist = "clean"
    /\ pending # Null
    /\ disk = NoDir
    /\ readResult = Null

-----------------------------------------------------------------------------
\* C13: a completed writeSequencerState over an existing state leaves the
\* directory exactly as a write into no directory would, and
\* readSequencerState returns the state just written: no ref and no commit
\* of the earlier state is left.
C13_WriteReplaces ==
    (hist = "written" /\ prior # Null) =>
        /\ disk = writeSequencerState(NoDir, pending)
        /\ readSequencerState(disk) = pending

C13_Witness ==
    /\ hist = "written"
    /\ prior # Null
    /\ prior.type # pending.type
    /\ prior.originalHead.ref # NoRef /\ pending.originalHead.ref = NoRef
    /\ prior.target.ref # NoRef /\ pending.target.ref = NoRef
    /\ Len(prior.commits) > Len(pending.commits)
    /\ readResult = pending

-----------------------------------------------------------------------------
\* the directory with the files in F removed, as an interrupted removal
\* leaves it
Without(d, F) ==
    [d EXCEPT !.files = [f \in FileNames |->
                            IF f \in F THEN NoFile ELSE d.files[f]]]

\* C14: whatever prefix of its steps writeSequencerState has taken (removal
\* of the old directory, mkdir, the five file writes in order),
\* readSequencerState returns null, the complete previous state or the
\* complete new state, never a partial or mixed one.
C14_NoPartialState ==
    /\ hist = "writing" => readSequencerState(disk) \in {Null, prior, pending}
    /\ hist = "written" =>
          \A F \in SUBSET FileNames :
              readSequencerState(Without(disk, F)) \in {Null, pending}

C14_Witness ==
    /\ hist = "writing"
    /\ wpc = NumWriteSteps
    /\ prior # Null
    /\ prior # pending
    /\ disk.files[COMMITS_FILE].present
    /\ readResult = Null

-----------------------------------------------------------------------------
\* type strings, commit lists and indices a caller may pass to the
\* constructor, valid or not
TypeInputs == TYPE \cup {<<"toString">>, <<"x">>}
CommitListInputs == {<<>>} \cup CommitLists
IndexInputs == (0 - 1)..MaxCommits

WellFormed(v) ==
    /\ v.type \in {<<"CHERRY_PICK">>, <<"MERGE">>, <<"REBASE">>}
    /\ Len(v.commits) > 0
    /\ 0 <= v.currentCommit
    /\ v.currentCommit < Len(v.commits)

\* C15: every SequencerState, constructed directly or returned by
\* readSequencerState, has one of the three types, a non-empty commit list
\* and 0 <= currentCommit < commits.length.
C15_StateWellFormed ==
    /\ \A t \in TypeInputs, c \in CommitListInputs, i \in IndexInputs :
          LET v == SequencerState(t, CommitAndRef(<<"a">>, NoRef),
                                  CommitAndRef(<<"b">>, NoRef), c, i)
          IN v # Raise => WellFormed(v)
    /\ LET v == readSequencerState(disk)
       IN v.kind = "state" => WellFormed(v)

-----------------------------------------------------------------------------
(* Properties of the work queue *)

\* C16: the array doInParallel returns has the length of the queue and holds
\* at every position i the result of getWork(queue[i], i), in whatever
\* order the work completed.
C16_OrderPreserved ==
    promise = "resolved" =>
        /\ DOMAIN resultArray = 0..(Len(queue) - 1)
        /\ \A i \in DOMAIN resultArray :
              resultArray[i] =
                  [kind |-> "value", item |-> queue[i + 1], index |-> i]

C16_Witness ==
    /\ promise = "resolved"
    /\ Len(queue) = MaxQueue
    /\ Len(queue) > MAX_WORK
    /\ settled[1] = 1
    /\ settled[Len(settled)] = 0
    /\ queue[1] # queue[2]
    /\ resultArray[0].item = queue[1]

\* the positions whose work has been started and has not settled
InFlight ==
    {calls[k][2] : k \in DOMAIN calls} \ {settled[k] : k \in DOMAIN settled}

\* C17: at no moment are more than MAX_WORK work items started and not yet
\* completed, and once doInParallel waits for its workers a further item is
\* started only in a step in which the work of a worker completes.
C17_CeilingHolds ==
    /\ [](Cardinality(InFlight) <= MAX_WORK)
    /\ [][(promise # "none" /\ calls' # calls) =>
             /\ Len(calls') = Len(calls) + 1
             /\ Len(settled') = Len(settled) + 1]_vars

C17_Witness ==
    /\ Cardinality(InFlight) = MAX_WORK
    /\ Len(calls) > MAX_WORK
    /\ next < Len(queue)

\* the number of items in the chunks before chunk k
RECURSIVE SizeBefore(_, _)
SizeBefore(chunks, k) ==
    IF k <= 1 THEN 0 ELSE SizeBefore(chunks, k - 1) + Len(chunks[k - 1])

\* C18: doInBatches splits the queue into contiguous chunks that partition it
\* in input order, uses at most `batches` chunks, calls getWork once for each
\* chunk, and returns the chunk results concatenated in chunk order, so that
\* the result at position i is the result for the item at position i.
C18_BatchesPartition ==
    batched.kind = "returned" =>
        LET chunks == batched.batchedQueue
            r      == batched.result
        IN /\ Len(chunks) <= batched.batches
           /\ \A k \in DOMAIN chunks : Len(chunks[k]) > 0
           /\ SizeBefore(chunks, Len(chunks) + 1) = Len(queue)
           /\ \A k \in DOMAIN chunks : \A j \in DOMAIN chunks[k] :
                 chunks[k][j] = queue[SizeBefore(chunks, k) + j]
           /\ Len(batched.getWorkCalls) = Len(chunks)
           /\ \A k \in DOMAIN chunks :
                 batched.getWorkCalls[k] = <<chunks[k], k - 1>>
           /\ Len(r) = Len(queue)
           /\ \A i \in DOMAIN r :
                 /\ r[i].kind = "value"
                 /\ r[i].item = queue[i]
                 /\ r[i].batch + 1 \in DOMAIN chunks
                 /\ i = SizeBefore(chunks, r[i].batch + 1) + r[i].offset

C18_Witness ==
    /\ batched.kind = "returned"
    /\ batched.batches = 2
    /\ Len(queue) = 3
    /\ queue[1] # queue[2]
    /\ Len(batched.batchedQueue) = 2
    /\ Len(batched.batchedQueue[2]) < Len(batched.batchedQueue[1])
    /\ batched.result[3].batch = 1
    /\ batched.result[3].item = queue[3]

-----------------------------------------------------------------------------
(* Properties of computeChanges *)

\* what computeChanges returns for HEAD and the target commit
Classified == computeChanges(HeadTree, targetCommit.baseTree, targetCommit)

\* cherryPick has just classified the changes of the target commit
JustClassified == op = [name |-> "cherryPick", pc |-> "write"]

\* HEAD has a sub-repo pointer at path p and its sha differs from both shas
\* of the change of p
Diverged(p) ==
    /\ IsSub(HeadTree[p])
    /\ HeadTree[p].sha # targetCommit.changes[p].oldSha
    /\ HeadTree[p].sha # targetCommit.changes[p].newSha

\* the change of p is a normal update
NormalUpdate(p) ==
    /\ targetCommit.changes[p].oldSha # 0
    /\ targetCommit.changes[p].newSha # 0

DivergedInChanges(r) ==
    \A p \in DOMAIN targetCommit.changes :
        Diverged(p) => /\ p \in DOMAIN r.changes
                       /\ p \notin DOMAIN r.simpleChanges

\* C19 as stated: every touched path where HEAD's sub-repo sha differs from
\* both the old and the new sha of the change is in `changes` and not in
\* `simpleChanges`.
C19_DivergedIsRecursive ==
    JustClassified => DivergedInChanges(changes)

DivergedUpdateInChanges(r) ==
    \A p \in DOMAIN targetCommit.changes :
        Diverged(p) =>
            /\ p \notin DOMAIN r.simpleChanges
            /\ NormalUpdate(p) => /\ p \in DOMAIN r.changes
                                   /\ r.changes[p] = targetCommit.changes[p]
                                   /\ p \notin DOMAIN r.conflicts
            /\ ~NormalUpdate(p) => /\ p \in DOMAIN r.conflicts
                                    /\ p \notin DOMAIN r.changes

\* C19 as amended: a touched path where HEAD's sub-repo sha differs from
\* both shas of the change is never in `simpleChanges`; it is in `changes`
\* when the change is a normal update, and in `conflicts` when the change
\* is an addition or a deletion.
C19_DivergedUpdateIsRecursive ==
    /\ DivergedUpdateInChanges(Classified)
    /\ JustClassified => DivergedUpdateInChanges(changes)

C19_Witness ==
    /\ JustClassified
    /\ DOMAIN targetCommit.changes = {"s", "t"}
    /\ Diverged("s") /\ NormalUpdate("s")
    /\ Diverged("t") /\ ~NormalUpdate("t")
    /\ "s" \in DOMAIN changes.changes
    /\ "t" \in DOMAIN changes.conflicts

NormalUpdateClassified(r) ==
    \A p \in DOMAIN targetCommit.changes :
        (IsSub(HeadTree[p]) /\ NormalUpdate(p)) =>
            LET headSha == HeadTree[p].sha
                change  == targetCommit.changes[p]
            IN /\ p \notin DOMAIN r.conflicts
               /\ headSha = change.newSha =>
                     /\ p \notin DOMAIN r.changes
                     /\ p \notin DOMAIN r.simpleChanges
               /\ (headSha = change.oldSha /\ headSha # change.newSha) =>
                     /\ p \notin DOMAIN r.changes
                     /\ p \in DOMAIN r.simpleChanges
                     /\ r.simpleChanges[p].sha = change.newSha
               /\ (headSha # change.oldSha /\ headSha # change.newSha) =>
                     /\ p \notin DOMAIN r.simpleChanges
                     /\ p \in DOMAIN r.changes
                     /\ r.changes[p] =
                            [oldSha |-> change.oldSha, newSha |-> change.newSha]

\* C20: a touched path that is a sub-repo pointer in HEAD and whose change is
\* a normal update is in none of the three maps if HEAD's sha is the new
\* sha, a simple change to the new sha if HEAD's sha is the old sha, and an
\* entry of `changes` holding the old and the new sha otherwise; it is never
\* a conflict.
C20_NormalUpdateClasses ==
    /\ NormalUpdateClassified(Classified)
    /\ JustClassified => NormalUpdateClassified(changes)

C20_Witness ==
    /\ JustClassified
    /\ DOMAIN targetCommit.changes = {"s", "t"}
    /\ NormalUpdate("s") /\ NormalUpdate("t")
    /\ HeadTree["s"] = SubEntry(targetCommit.changes["s"].newSha)
    /\ HeadTree["t"] = SubEntry(targetCommit.changes["t"].oldSha)
    /\ DOMAIN changes.simpleChanges = {"t"}
    /\ changes.simpleChanges["t"].sha = targetCommit.changes["t"].newSha
    /\ DOMAIN changes.changes = {}
    /\ DOMAIN changes.conflicts = {}

\* the change of p is a deletion
Deletion(p) == targetCommit.changes[p].newSha = 0

\* the change of p is an addition
Addition(p) == targetCommit.changes[p].oldSha = 0

DeletionClassified(r) ==
    \A p \in DOMAIN targetCommit.changes :
        (IsSub(HeadTree[p]) /\ Deletion(p)) =>
            LET simpleDeletion == /\ p \in DOMAIN r.simpleChanges
                                  /\ r.simpleChanges[p] = NullSub
            IN /\ simpleDeletion <=>
                     HeadTree[p].sha = targetCommit.changes[p].oldSha
               /\ ~simpleDeletion => /\ p \in DOMAIN r.conflicts
                                     /\ p \notin DOMAIN r.simpleChanges
               /\ simpleDeletion => p \notin DOMAIN r.conflicts
               /\ p \notin DOMAIN r.changes

\* C21: for a touched path that is a sub-repo pointer in HEAD and whose
\* change is a deletion, computeChanges records the simple deletion
\* simpleChanges[path] = null if and only if HEAD's sha is the old sha of the
\* change; otherwise it records a conflict and no simple deletion.
C21_DeletionClasses ==
    /\ DeletionClassified(Classified)
    /\ JustClassified => DeletionClassified(changes)

C21_Witness ==
    /\ JustClassified
    /\ DOMAIN targetCommit.changes = {"s", "t"}
    /\ Deletion("s") /\ Deletion("t")
    /\ HeadTree["s"] = SubEntry(targetCommit.changes["s"].oldSha)
    /\ IsSub(HeadTree["t"])
    /\ HeadTree["t"].sha # targetCommit.changes["t"].oldSha
    /\ changes.simpleChanges = [p \in {"s"} |-> NullSub]
    /\ DOMAIN changes.conflicts = {"t"}

\* the conflict slot made of a tree entry; a null slot when there is none
SlotOf(tree, p) ==
    IF tree = Null \/ tree[p] = Absent THEN NoSlot
    ELSE [filemode |-> tree[p].filemode, sha |-> tree[p].sha]

AbsentClassified(r, base) ==
    \A p \in DOMAIN targetCommit.changes :
        HeadTree[p] = Absent =>
            LET change == targetCommit.changes[p]
            IN /\ p \notin DOMAIN r.changes
               /\ change.oldSha = 0 =>
                     /\ p \in DOMAIN r.simpleChanges
                     /\ r.simpleChanges[p].sha = change.newSha
                     /\ change.newSha # 0
                     /\ p \notin DOMAIN r.conflicts
               /\ (change.oldSha # 0 /\ change.newSha = 0) =>
                     /\ p \notin DOMAIN r.simpleChanges
                     /\ p \notin DOMAIN r.conflicts
               /\ (change.oldSha # 0 /\ change.newSha # 0) =>
                     /\ p \notin DOMAIN r.simpleChanges
                     /\ p \in DOMAIN r.conflicts
                     /\ r.conflicts[p].our = NoSlot
                     /\ r.conflicts[p].their =
                            [filemode |-> FILEMODE_COMMIT,
                             sha |-> change.newSha]
                     /\ r.conflicts[p].ancestor = SlotOf(base, p)

\* C22: for a touched path with no entry in the HEAD tree, an addition is a
\* simple change to the new sha and never a conflict, a removal is in none of
\* the three maps, and any other change is a conflict whose `our` is null,
\* whose `their` is the incoming new sha and whose `ancestor` is the entry
\* of the merge-base tree (null if there is none, or no merge base).
C22_AbsentClasses ==
    /\ AbsentClassified(Classified, targetCommit.baseTree)
    /\ AbsentClassified(computeChanges(HeadTree, Null, targetCommit), Null)
    /\ JustClassified => AbsentClassified(changes, targetCommit.baseTree)

C22_Witness ==
    /\ JustClassified
    /\ HeadTree = [p \in Paths |-> Absent]
    /\ DOMAIN targetCommit.changes = {"s", "t"}
    /\ Addition("s")
    /\ NormalUpdate("t")
    /\ DOMAIN changes.simpleChanges = {"s"}
    /\ DOMAIN changes.conflicts = {"t"}
    /\ changes.conflicts["t"].ancestor # NoSlot
    /\ changes.conflicts["t"].our = NoSlot

NotSubClassified(r) ==
    \A p \in DOMAIN targetCommit.changes :
        (HeadTree[p] # Absent /\ HeadTree[p].filemode # FILEMODE_COMMIT) =>
            /\ p \in DOMAIN r.conflicts
            /\ p \notin DOMAIN r.simpleChanges
            /\ p \notin DOMAIN r.changes

\* C23: a touched path that exists in HEAD and is not a sub-repo pointer
\* there is always recorded as a conflict and never as a simple change or
\* a change, whatever the incoming change.
C23_NotSubIsConflict ==
    /\ NotSubClassified(Classified)
    /\ JustClassified => NotSubClassified(changes)

C23_Witness ==
    /\ JustClassified
    /\ HeadTree = [p \in Paths |-> FileEntry]
    /\ DOMAIN targetCommit.changes = {"s", "t"}
    /\ NormalUpdate("s")
    /\ Deletion("t")
    /\ DOMAIN changes.conflicts = {"s", "t"}

AdditionClassified(r) ==
    \A p \in DOMAIN targetCommit.changes :
        (IsSub(HeadTree[p]) /\ Addition(p)) =>
            /\ p \notin DOMAIN r.simpleChanges
            /\ p \notin DOMAIN r.changes
            /\ p \in DOMAIN r.conflicts <=>
                  HeadTree[p].sha # targetCommit.changes[p].newSha

\* C24: for a touched path that is a sub-repo pointer in HEAD and whose
\* change is an addition, computeChanges records a conflict unless HEAD's
\* sha is already the incoming new sha; then the path is in none of the
\* three maps.
C24_AdditionClasses ==
    /\ AdditionClassified(Classified)
    /\ JustClassified => AdditionClassified(changes)

C24_Witness ==
    /\ JustClassified
    /\ DOMAIN targetCommit.changes = {"s", "t"}
    /\ Addition("s") /\ Addition("t")
    /\ HeadTree["s"] = SubEntry(targetCommit.changes["s"].newSha)
    /\ IsSub(HeadTree["t"])
    /\ HeadTree["t"].sha # targetCommit.changes["t"].newSha
    /\ DOMAIN changes.conflicts = {"t"}
    /\ DOMAIN changes.simpleChanges = {}
    /\ DOMAIN changes.changes = {}

-----------------------------------------------------------------------------
(* Properties of pickSubs and finish *)

\* the sub-repos that were closed when the running cherryPick started
ClosedAtStart == {p \in Paths : ~snap.subs[p].open}

\* a replay of the sub-repo at p has come back
Replayed(p) == p \in DOMAIN picks.commits

\* C25 as stated: during cherryPick no replay is attempted for a sub-repo
\* that was closed when the operation started.
C25_ClosedNeverReplayed ==
    op.name = "cherryPick" => \A p \in ClosedAtStart : ~Replayed(p)

\* at the start of the running cherryPick the change of p was a normal
\* update and HEAD's sha differed from both of its shas
DivergedUpdateAtStart(p) ==
    /\ p \in DOMAIN targetCommit.changes
    /\ targetCommit.changes[p].oldSha # 0
    /\ targetCommit.changes[p].newSha # 0
    /\ IsSub(metaCommits[snap.head].tree[p])
    /\ metaCommits[snap.head].tree[p].sha # targetCommit.changes[p].oldSha
    /\ metaCommits[snap.head].tree[p].sha # targetCommit.changes[p].newSha

\* C25 as amended: during cherryPick a sub-repo that was closed when the
\* operation started is opened and replayed exactly when its change is a
\* normal update and HEAD's sha differs from both shas of the change; any
\* other change leaves it closed.
C25_ClosedReplayedOnlyIfDiverged ==
    op.name = "cherryPick" =>
        \A p \in ClosedAtStart :
            /\ (Replayed(p) \/ subs[p].open) => DivergedUpdateAtStart(p)
            /\ (op.pc \in {"finish", "finish clean"}
                  /\ DivergedUpdateAtStart(p)) =>
                   (Replayed(p) /\ subs[p].open)

C25_Witness ==
    /\ op = [name |-> "cherryPick", pc |-> "finish"]
    /\ ClosedAtStart = Paths
    /\ DivergedUpdateAtStart("s")
    /\ Replayed("s")
    /\ subs["s"].open
    /\ "t" \in DOMAIN changes.simpleChanges
    /\ ~subs["t"].open

\* the paths pickSubs was given whose pickSub has run to its end
Picked == DOMAIN changes.changes \ inflight

\* the commit the sub-repo at p was on when its replay started
StartOf(p) == metaCommits[snap.head].tree[p].sha

\* the paths pickSubs has listed as conflicted
ConflictedPicks == {picks.conflicts[i] : i \in DOMAIN picks.conflicts}

\* C26: for every path in `changes`, pickSubs records the commits the replay
\* made under the path, stages the sub-repo's current state in the meta
\* index whether or not the replay conflicted, and lists the path among the
\* conflicts if and only if the replay stopped at a conflicted commit.
C26_PickRecorded ==
    (op.name = "cherryPick" /\ op.pc \in {"pick", "finish"}) =>
        /\ DOMAIN picks.commits = Picked
        /\ ConflictedPicks \subseteq Picked
        /\ \A p \in Picked :
             /\ subs[p].open
             /\ picks.commits[p] = IF subs[p].head # StartOf(p)
                                   THEN <<subs[p].head>> ELSE <<>>
             /\ memIndex[p] = SubEntry(subs[p].head)
             /\ p \in ConflictedPicks <=> subs[p].conflicted
        /\ op.pc = "finish" => (inflight = {} /\ picks.conflicts = <<>>)

C26_Witness ==
    /\ op = [name |-> "cherryPick", pc |-> "pick"]
    /\ DOMAIN changes.changes = {"s", "t"}
    /\ inflight = {}
    /\ picks.conflicts = <<"s">>
    /\ picks.commits["s"] # <<>>
    /\ memIndex["s"] = SubEntry(subs["s"].head)
    /\ subs["s"].head # StartOf("s")
    /\ picks.commits["t"] # <<>>
    /\ memIndex["t"] = SubEntry(subs["t"].head)

\* pickSubs is running and some pickSub has not come to its end
Picking == op = [name |-> "cherryPick", pc |-> "pick"] /\ inflight # {}

\* C27: when the fetch or the replay of one sub-repo fails during pickSubs,
\* the failure becomes an entry of that sub-repo: pickSubs goes on, records
\* a result for the path, and keeps the results of the other sub-repos.
C27_FailureIsCaught ==
    [][Picking =>
         /\ op' = op
         /\ inflight' \subseteq inflight
         /\ DOMAIN picks'.commits =
                DOMAIN picks.commits \cup (inflight \ inflight')
         /\ \A p \in DOMAIN picks.commits :
                picks'.commits[p] = picks.commits[p]]_vars

\* C28: when a work item of doInParallel fails, doInParallel rejects, and no
\* work item that had not been started at the time of the failure is
\* started afterwards.
C28_FailureAbandonsQueue ==
    /\ []((\E w \in DOMAIN work : work[w] = Rejected) => promise = "rejected")
    /\ [][promise = "rejected" => calls' = calls]_vars

\* C29: the meta-commit finish creates has the original HEAD as its only
\* parent, the rewritten index tree as its tree, and the author, the
\* committer and the message of the picked commit.
C29_CommitCopiesTarget ==
    op.pc = "finish clean" =>
        /\ metaCommits[head].parent = snap.head
        /\ metaCommits[head].tree = diskIndex
        /\ metaCommits[head].author = targetCommit.author
        /\ metaCommits[head].committer = targetCommit.committer
        /\ metaCommits[head].message = targetCommit.message

\* cherryPick has ended with the failure of a fetch or of a replay
PickFailed == op = Idle /\ result = Failed("cherryPick")

\* C30: after a fetch or a replay has failed during cherryPick, the
\* sequencer state on disk still reads as the state written at the start,
\* a cherry-pick whose original head is the HEAD the operation started on.
C30_FailureKeepsState ==
    /\ PickFailed =>
          /\ OnDisk = ExpectedRecord
          /\ OnDisk = CherryPickSeq(snap.head, targetCommit.id)
          /\ ~ensureCherryInProgress(OnDisk)
          /\ AbortTarget(OnDisk) = snap.head
          /\ snap.head \in DOMAIN metaCommits
    /\ Picking => OnDisk = ExpectedRecord

C30_Witness ==
    /\ PickFailed
    /\ OnDisk = ExpectedRecord
    /\ \E p \in Paths : subs[p] # snap.subs[p]
    /\ memIndex = Null
    /\ diskIndex = snap.index

-----------------------------------------------------------------------------
(* Properties of the report, of the store under concurrency, and of
   changeSubmodules *)

\* the paths writeConflicts has marked as conflicted in the index object
ClassifiedConflicts == {p \in Paths : memIndex[p].kind = "conflict"}

\* the sub-repos whose replay has stopped at a conflict
ReplayConflicts == {p \in Paths : subs[p].open /\ subs[p].conflicted}

\* the report of the conflicts: the classified ones in sorted order, then
\* the replays that conflicted in sorted order
ConflictReport ==
    ConflictingLines(Sorted(ClassifiedConflicts)) \o
    ConflictedLines(Sorted(ReplayConflicts))

\* C31: when there are conflicts, cherryPick returns normally with an
\* errorMessage holding one line for every classified conflict in sorted
\* path order, then one line for every sub-repo whose replay conflicted in
\* sorted path order, whatever the order in which the picks completed.
C31_ConflictsReported ==
    [][(op = [name |-> "cherryPick", pc |-> "pick"] /\ inflight = {}
          /\ ConflictReport # <<>>) =>
         /\ result'.kind = "returned"
         /\ result'.op = "cherryPick"
         /\ result'.errorMessage = ConflictReport
         /\ result'.newMetaCommit = 0]_vars

C31_Witness ==
    /\ op = Idle
    /\ result.kind = "returned"
    /\ result.op = "cherryPick"
    /\ result.errorMessage = <<ConflictedLine("s"), ConflictedLine("t")>>
    /\ ReplayConflicts = {"s", "t"}
    /\ OnDisk = ExpectedRecord

\* C32: a readSequencerState whose file reads are interleaved with the
\* steps of a writeSequencerState returns null, the complete previous state
\* or the complete new state, never a combination of the two.
C32_NoMixedRead ==
    (rpc = 0 /\ readResult.kind # "none") =>
        readResult \in {Null, prior, pending}

\* cherryPick is about to call changeSubmodules with its simple changes
BeforeChangeSubmodules == op = [name |-> "cherryPick", pc |-> "simple"]

\* C33: after changeSubmodules, a name mapped to null has no index entry
\* and no URL; a name mapped to a Submodule has that sha as its git-link in
\* the index, an open sub-repo being hard-reset to the commit and a closed
\* one staying closed with its URL recorded; the index entries and URLs of
\* all other names are unchanged.
C33_ChangeSubmodulesEffect ==
    [][BeforeChangeSubmodules =>
         \A p \in Paths :
            IF p \notin DOMAIN changes.simpleChanges
            THEN /\ memIndex'[p] = memIndex[p]
                 /\ urls'[p] = urls[p]
                 /\ subs'[p] = subs[p]
            ELSE IF changes.simpleChanges[p] = NullSub
            THEN /\ memIndex'[p] = Absent
                 /\ urls'[p] = "none"
                 /\ ~subs'[p].open
            ELSE /\ memIndex'[p] = [kind |-> "entry",
                                    filemode |-> FILEMODE_COMMIT,
                                    sha |-> changes.simpleChanges[p].sha]
                 /\ subs[p].open =>
                       /\ subs'[p].open
                       /\ subs'[p].head = changes.simpleChanges[p].sha
                       /\ subs'[p].dirty = "clean"
                 /\ ~subs[p].open =>
                       /\ subs'[p] = subs[p]
                       /\ urls'[p] = changes.simpleChanges[p].url]_vars

C33_Witness ==
    /\ op = [name |-> "cherryPick", pc |-> "conflicts"]
    /\ DOMAIN changes.simpleChanges = {"s", "t"}
    /\ snap.subs["s"].open
    /\ subs["s"].open
    /\ subs["s"].head = changes.simpleChanges["s"].sha
    /\ subs["s"].head # snap.subs["s"].head
    /\ snap.index["t"] = Absent
    /\ ~subs["t"].open
    /\ memIndex["t"] = SubEntry(changes.simpleChanges["t"].sha)
    /\ snap.urls["t"] = "none"
    /\ urls["t"] = changes.simpleChanges["t"].url

\* worker w is waiting for the promise of its work
WaitedOn(w) == work[w].pc = "working"

\* C34: doInParallel calls getWork once for each position i, in order, with
\* the arguments (queue[i], i); no two workers hold the same position, the
\* cursor `next` never exceeds queue.length, and once a worker has left its
\* loop or doInParallel has resolved every position has been called.
C34_EachPositionOnce ==
    /\ next <= Len(queue)
    /\ Len(calls) = next
    /\ \A k \in DOMAIN calls : calls[k] = <<queue[k], k - 1>>
    /\ \A v, w \in DOMAIN work :
          (v # w /\ WaitedOn(v) /\ WaitedOn(w)) =>
              work[v].current # work[w].current
    /\ \A w \in DOMAIN work : WaitedOn(w) => work[w].current < next
    /\ ((\E w \in DOMAIN work : work[w].pc = "done") \/ promise = "resolved") =>
          /\ Len(calls) = Len(queue)
          /\ \A i \in Positions(queue) :
                Cardinality({k \in DOMAIN calls : calls[k][2] = i}) = 1

C34_Witness ==
    /\ promise = "resolved"
    /\ Len(queue) >= 4
    /\ settled[1] = 1
    /\ settled[2] = 0
    /\ Len(settled) = Len(queue)
    /\ Len(calls) = Len(queue)

\* the meta-commit of the cherry-pick is at HEAD, on top of the commit the
\* cherry-pick started on, and holds the index
MetaCommitCreated ==
    /\ head # snap.head
    /\ metaCommits[head].parent = snap.head
    /\ metaCommits[head].committer = targetCommit.committer
    /\ metaCommits[head].message = targetCommit.message
    /\ metaCommits[head].tree = diskIndex

\* C35: on the success path the sequencer state is removed only after the
\* meta-commit has been created: while finish has not created the commit
\* the state of the cherry-pick is on disk, between the two steps of finish
\* the commit exists and the state is still on disk, and the step that
\* removes the state finds the commit at HEAD.
C35_CommitBeforeClean ==
    /\ [](op.pc = "finish" =>
            (OnDisk # Null /\ OnDisk.type = CHERRY_PICK /\ ~MetaCommitCreated))
    /\ [](op.pc = "finish clean" => (OnDisk # Null /\ MetaCommitCreated))
    /\ [][(op.pc \in {"finish", "finish clean"} /\ OnDisk' = Null) =>
             (op.pc = "finish clean" /\ MetaCommitCreated /\ head' = head)]_vars

C35_Witness ==
    /\ op = [name |-> "continue", pc |-> "finish clean"]
    /\ OnDisk # Null
    /\ MetaCommitCreated
    /\ metaCommits[head].parent = 1

\* abort has ended without reaching cleanSequencerState
AbortCutShort ==
    /\ op = Idle
    /\ result.op = "abort"
    /\ result.kind \in {"error", "interrupted"}

\* C36: abort removes the sequencer state only after the reset to
\* originalHead has completed: after the reset and before the removal the
\* state is on disk as cherryPick wrote it and HEAD and index are those of
\* originalHead; an abort whose reset failed or that was interrupted leaves
\* that state on disk, and an abort tried again resets to the same commit.
C36_ResetBeforeClean ==
    /\ [](op = [name |-> "abort", pc |-> "clean"] =>
            /\ OnDisk = ExpectedRecord
            /\ head = snap.head
            /\ diskIndex = metaCommits[snap.head].tree
            /\ urls = metaCommits[snap.head].urls)
    /\ [](AbortCutShort => OnDisk = ExpectedRecord)
    /\ [][(AbortCutShort /\ op'.name = "abort") =>
             (head' = snap.head /\ disk' = disk)]_vars
    /\ [][((op.name = "abort" \/ result'.op = "abort") /\ disk' # disk) =>
             (op = [name |-> "abort", pc |-> "clean"] /\ head = snap.head)]_vars

\* an abort that failed was tried again and has reset the repository
C36_Witness ==
    /\ op = [name |-> "abort", pc |-> "clean"]
    /\ result.after.op = "abort"
    /\ result.after.kind = "error"
    /\ OnDisk = ExpectedRecord
    /\ head = snap.head
    /\ diskIndex = HeadTree

\* C37: whenever cherryPick or continue returns normally, exactly one of
\* result.newMetaCommit and result.errorMessage is non-null.
C37_CommitOrReport ==
    PickReturned =>
        ((result.newMetaCommit # 0) <=> (result.errorMessage = <<>>))

C37_Witness ==
    /\ PickReturned
    /\ result.op = "continue"
    /\ result.newMetaCommit = head
    /\ result.newMetaCommit # 0
    /\ result.errorMessage = <<>>
    /\ OnDisk = Null

\* what a result of computeChanges says about path p
ResultAt(r, p) ==
    IF p \in DOMAIN r.simpleChanges THEN <<"simple", r.simpleChanges[p]>>
    ELSE IF p \in DOMAIN r.changes THEN <<"change", r.changes[p]>>
    ELSE IF p \in DOMAIN r.conflicts THEN <<"conflict", r.conflicts[p]>>
    ELSE <<"none">>

\* the inputs of computeChanges that agree with the present ones on the HEAD
\* entry, the merge-base entry, the change and the URL of path p, and have
\* anything at the other paths
InputsAgreeingOn(p) ==
    {[headTree |-> h, baseTree |-> b,
      commit |-> [TargetCommit(h, c, {x \in {p} \cap DOMAIN targetCommit.commitUrls :
                                         targetCommit.commitUrls[x] = "u2"})
                  EXCEPT !.baseTree = b]] :
        h \in {t \in [Paths -> HeadEntries] : t[p] = HeadTree[p]},
        b \in {t \in [Paths -> HeadEntries] :
                  t[p] = targetCommit.baseTree[p]},
        c \in {f \in UNION {[touched -> TargetChanges] :
                             touched \in SUBSET Paths} :
                  /\ p \in DOMAIN f <=> p \in DOMAIN targetCommit.changes
                  /\ p \in DOMAIN f => f[p] = targetCommit.changes[p]}}

\* C38: in the result of computeChanges the key sets of simpleChanges,
\* changes and conflicts are pairwise disjoint, every key is a path the
\* target commit changes, and what the result says about a path is the same
\* for every input with the same HEAD entry, merge-base entry and change at
\* that path, whatever the other paths hold.
C38_ClassifiedPathwise ==
    JustClassified =>
        /\ DOMAIN changes.simpleChanges \cap DOMAIN changes.changes = {}
        /\ DOMAIN changes.simpleChanges \cap DOMAIN changes.conflicts = {}
        /\ DOMAIN changes.changes \cap DOMAIN changes.conflicts = {}
        /\ \A p \in DOMAIN changes.simpleChanges \cup DOMAIN changes.changes
                     \cup DOMAIN changes.conflicts :
              /\ p \in DOMAIN targetCommit.changes
              /\ targetCommit.changes[p].oldSha # targetCommit.changes[p].newSha
        /\ \A p \in Paths :
              \A other \in InputsAgreeingOn(p) :
                 ResultAt(computeChanges(other.headTree, other.baseTree,
                                         other.commit), p)
                    = ResultAt(changes, p)

C38_Witness ==
    /\ JustClassified
    /\ DOMAIN changes.changes = {"s"}
    /\ DOMAIN changes.conflicts = {"t"}
    /\ \E other \in InputsAgreeingOn("s") :
          /\ other.headTree # HeadTree
          /\ DOMAIN computeChanges(other.headTree, other.baseTree,
                                   other.commit).simpleChanges = {"t"}

\* doInParallel has resolved with every slot of its result assigned
ResolvedFull ==
    /\ promise = "resolved"
    /\ DOMAIN resultArray = Positions(queue)
    /\ \A i \in Positions(queue) :
          resultArray[i] = GetWork(queue[i + 1], i)

\* C39: if the promise of every work item resolves, a doInParallel that was
\* started resolves in the end with every slot of its result filled; with
\* an empty queue it resolves to an empty array and getWork is never called.
C39_QueueTerminates ==
    /\ (promise = "pending" /\ failing = {}) ~> ResolvedFull
    /\ [](Len(queue) = 0 => calls = <<>>)
    /\ [](Len(queue) = 0 /\ promise = "resolved" => DOMAIN resultArray = {})

C39_Witness ==
    /\ ResolvedFull
    /\ failing = {}
    /\ Len(queue) >= 4
    /\ settled[3] = 3
    /\ settled[4] = 2

\* the repositories whose dry run fails
DryRunFailures == {r \in {"meta"} \cup AliveOnCommit : dryRun(r) # Null}

\* HEAD and working tree of every repository are as checkoutCommit found them
Untouched ==
    \A r \in Repos : checkoutRepos[r].head = 1 /\ checkoutRepos[r].workdir = 1

\* C40: with force = false, checkoutCommit moves the HEAD or working tree
\* of a repository only if the dry run succeeded for the meta-repo and for
\* every open sub-repo in the commit; if a dry run fails it throws a
\* UserError listing every failure, and no HEAD or working tree has changed.
C40_DryRunsGuardCheckout ==
    /\ [](~force /\ DryRunFailures # {} => Untouched)
    /\ [](~force /\ DryRunFailures # {} /\ cpc = "done" =>
            \/ thrown.kind = "error" /\ errors = <<>>
            \/ /\ thrown.kind = "UserError"
               /\ {thrown.lines[i].repo : i \in DOMAIN thrown.lines}
                     = DryRunFailures
               /\ Len(thrown.lines) = Cardinality(DryRunFailures))
    /\ [][~force /\ checkoutRepos' # checkoutRepos =>
             /\ DryRunFailures = {}
             /\ errors = <<>>
             /\ cpc \in {"checkout meta", "checkout subs"}]_vars

C40_Witness ==
    /\ ~force
    /\ cpc = "done"
    /\ thrown.kind = "UserError"
    /\ Len(thrown.lines) = 3
    /\ thrown.lines[1].repo = "meta"
    /\ thrown.lines[2].repo = "t"
    /\ Untouched

====
